---- MODULE Spec2Model ----
(***************************************************************************)
(* pipdeptree: the package dependency graph (PackageDAG and                *)
(* ReversedPackageDAG of src/pipdeptree/_models.py), its construction      *)
(* from a list of installed distributions, its filtering and reversal,    *)
(* the key normalisation of src/pipdeptree/_models/package.py and         *)
(* src/pipdeptree/_util.py, the discovery of installed distributions       *)
(* (src/pipdeptree/_discovery.py), DistPackage.requires, the conflict and  *)
(* cycle detection of src/pipdeptree/_validate.py, sorting, the warning   *)
(* printer of src/pipdeptree/_warning.py and main of                      *)
(* src/pipdeptree/__main__.py.  filter_nodes is also followed statement   *)
(* by statement, and the graph operations are modelled a second time on   *)
(* list objects in memory, to see what they write and what they allocate. *)
(*                                                                         *)
(* Strings that the code inspects character by character (package keys,   *)
(* raw names, filter patterns) are sequences of one-character strings.     *)
(* Python's None is the record None.  A dict is a sequence of entries      *)
(* [k |-> key object, v |-> value] in insertion order.  Package objects    *)
(* hash by identity: a ReqPackage record carries the place its object was  *)
(* created (oid), and a graph holds one DistPackage object per (key, req), *)
(* so that equal records are the same object.                              *)
(***************************************************************************)
EXTENDS Integers, Sequences, FiniteSets, TLC

VARIABLES
    pkgs,    \* the list of distributions handed to PackageDAG.from_pkgs
    tree,    \* the graph built by from_pkgs (None before it ran)
    src,     \* the graph the last operation was called on
    cur,     \* what the last operation returned: a graph or a raised exception
    last,    \* the last operation and its arguments
    hist,    \* names of the operations applied since from_pkgs
    nextid,  \* identity of the next graph object to be allocated
    raw,     \* a raw package name given to the key normalisation
    norm,    \* what the normalisation functions made of raw (None before they ran)
    orig,    \* the distributions importlib.metadata.distributions() yields
    inst,    \* what get_installed_distributions returned and printed (None before it ran)
    decl,    \* distributions with the requirement strings their metadata declares
    reqd,    \* what DistPackage.requires returned for each of decl (None before it ran)
    environ, \* the versions the running interpreter finds for a package key
    conflicts, \* what conflicting_deps(tree) returned (None before it ran)
    cycles,  \* what cyclic_deps(tree) returned (None before it ran)
    warning_printer, \* the shared WarningPrinter of _warning.py
    wlog,    \* the operations applied to warning_printer so far
    run,     \* a run of main: its options, position, steps taken and outcome
    trav,    \* a filter_nodes call in progress: its loop variables
    mem      \* dicts and child lists as objects in memory, by address

\* the state of discovery, of requires() and of validation
restvars == <<orig, inst, decl, reqd, environ, conflicts, cycles>>

\* the warning printer, main, the filter traversal and the object memory
progvars == <<warning_printer, wlog, run, trav, mem>>

vars == <<pkgs, tree, src, cur, last, hist, nextid, raw, norm, restvars, progvars>>

None == [kind |-> "none"]

(***************************************************************************)
(* Bounds and input universes                                              *)
(***************************************************************************)
MaxPkgs == 3      \* distributions in the input list
MaxReqs == 2      \* requirements declared by one distribution
MaxEdges == 3     \* requirements declared by all distributions together
MaxRev == 2       \* successive reverse() calls
MaxName == 3      \* characters of a raw package name
MaxFound == 3     \* distributions that importlib.metadata.distributions() yields
MaxDecl == 3      \* requirement strings in the metadata of one distribution
MaxSort == 2      \* calls of sort() in a row of operations
MaxOps == 4       \* operations applied to the warning printer

KA == <<"a">>
KB == <<"b">>
KAB == <<"a", "-", "b">>

\* keys of the distributions that may be installed
InstalledKeys == {KA, KB, KAB}
\* keys a requirement may name; the target is missing when it is not in the input list
ReqKeys == InstalledKeys

NoSpec == <<>>
SpecChoices == {<<[op |-> ">=", ver |-> 1]>>}

\* filter patterns as the caller writes them
Patterns == {<<"a">>, <<"A">>, <<"a", "*">>, <<"A", ".", "B">>, <<"z">>}

(***************************************************************************)
(* Strings                                                                 *)
(***************************************************************************)
\* str.lower(), one character
LowerChar(c) ==
    CASE c = "A" -> "a"
      [] c = "B" -> "b"
      [] c = "F" -> "f"
      [] OTHER -> c

\* str.lower()
lower(s) == [i \in 1..Len(s) |-> LowerChar(s[i])]

\* os.path.normcase on POSIX
normcase(s) == s

\* fnmatch.fnmatchcase for patterns made of literals, "*" and "?"
RECURSIVE fnmatchcase(_, _)
fnmatchcase(name, pat) ==
    IF pat = <<>> THEN name = <<>>
    ELSE IF Head(pat) = "*"
         THEN fnmatchcase(name, Tail(pat))
              \/ (name # <<>> /\ fnmatchcase(Tail(name), pat))
         ELSE /\ name # <<>>
              /\ (Head(pat) = "?" \/ Head(pat) = Head(name))
              /\ fnmatchcase(Tail(name), Tail(pat))

\* fnmatch.fnmatch
fnmatch(name, pat) == fnmatchcase(normcase(name), normcase(pat))

(***************************************************************************)
(* Key normalisation (_models/package.py, _util.py)                        *)
(***************************************************************************)
IsSep(c) == c \in {"-", "_", "."}

\* the rest of s after its leading run of "-", "_", "."
RECURSIVE SkipSeps(_)
SkipSeps(s) ==
    IF s # <<>> /\ IsSep(Head(s)) THEN SkipSeps(Tail(s)) ELSE s

\* re.sub("[-_.]+", "-", name)
RECURSIVE SubSepRuns(_)
SubSepRuns(name) ==
    IF name = <<>> THEN <<>>
    ELSE IF IsSep(Head(name))
         THEN <<"-">> \o SubSepRuns(SkipSeps(name))
         ELSE <<Head(name)>> \o SubSepRuns(Tail(name))

\* pep503_normalize of _models/package.py
pep503_normalize(name) == SubSepRuns(name)

\* pep503_normalize of _util.py
util_pep503_normalize(name) == lower(SubSepRuns(name))

\* Package.__init__ of _models/package.py
Package(project_name) ==
    [project_name |-> project_name, key |-> pep503_normalize(project_name)]

(***************************************************************************)
(* Package objects (_models.py)                                            *)
(***************************************************************************)
\* DistPackage(obj, req=None)
DistPackage(obj) ==
    [kind |-> "dist", key |-> obj.key, version |-> obj.version, req |-> None]

\* ReqPackage(obj, dist); oid tells apart objects of equal content: the place
\* where the Requirement object obj was created
ReqPackage(r, dist, oid) ==
    [kind |-> "req", key |-> r.key, specs |-> r.specs, dist |-> dist, oid |-> oid]

\* DistPackage.as_requirement: the requirement "name==version" resolved to self
as_requirement(self) ==
    ReqPackage([key |-> self.key, specs |-> <<[op |-> "==", ver |-> self.version]>>],
               self, <<0, 0>>)

\* DistPackage.as_parent_of: the mutant returns the instance itself
as_parent_of_self(self, req) == self

\* DistPackage.as_parent_of
as_parent_of(self, req) ==
    IF req = None /\ self.req = None THEN self ELSE [self EXCEPT !.req = req]

(***************************************************************************)
(* dict helpers                                                            *)
(***************************************************************************)
HasKey(m, node) == \E i \in DOMAIN m : m[i].k = node

PosOf(m, node) == CHOOSE i \in DOMAIN m : m[i].k = node

\* m[node] for a key that is present
DictGet(m, node) == m[PosOf(m, node)].v

\* m[node] = val
DictSet(m, node, val) ==
    IF HasKey(m, node)
    THEN [m EXCEPT ![PosOf(m, node)].v = val]
    ELSE Append(m, [k |-> node, v |-> val])

\* m[node].append(x) on a defaultdict(list)
DictAppend(m, node, x) ==
    IF HasKey(m, node)
    THEN [m EXCEPT ![PosOf(m, node)].v = Append(@, x)]
    ELSE Append(m, [k |-> node, v |-> <<x>>])

\* next((p for p in m if p.key == key), default): default ignored by the mutant
FirstWithKey_nolookup(m, key, default) == default

\* p.key where p may be None (the AttributeError that None.key raises is
\* reported by PackageDAG_init, which every dict holding a None key reaches)
KeyOf(p) == IF p = None THEN <<>> ELSE p.key

\* next((p for p in m if p.key == key), default)
FirstWithKey(m, key, default) ==
    IF \E i \in DOMAIN m : KeyOf(m[i].k) = key
    THEN m[CHOOSE i \in DOMAIN m :
              /\ KeyOf(m[i].k) = key
              /\ \A j \in DOMAIN m : KeyOf(m[j].k) = key => i <= j].k
    ELSE default

\* {r.key for r in chain.from_iterable(self._obj.values())}
child_keys(obj) ==
    UNION {{obj[i].v[j].key : j \in DOMAIN obj[i].v} : i \in DOMAIN obj}

(***************************************************************************)
(* PackageDAG (_models.py)                                                 *)
(***************************************************************************)
IsGraph(g) == g.cls \in {"PackageDAG", "ReversedPackageDAG"}

\* {p.key: p for p in list(self._obj)}: a later entry with the same key wins
IndexOf(m) ==
    [key \in {m[i].k.key : i \in DOMAIN m} |->
        m[CHOOSE i \in DOMAIN m :
              /\ m[i].k.key = key
              /\ \A j \in DOMAIN m : m[j].k.key = key => j <= i].k]

\* PackageDAG.__init__ called as cls(m); p.key on a None key raises AttributeError
PackageDAG_init(cls, m, id) ==
    IF \E i \in DOMAIN m : m[i].k = None
    THEN [cls |-> "AttributeError"]
    ELSE [cls |-> cls, id |-> id, obj |-> m, index |-> IndexOf(m)]

\* PackageDAG.get_node_as_parent
get_node_as_parent(self, node_key) ==
    IF node_key \in DOMAIN self.index THEN self.index[node_key] ELSE None

\* idx.get(r.key): the mutant finds no distribution
IdxGet_none(dist_pkgs, key) == None

\* idx.get(r.key) with idx = {p.key: p for p in dist_pkgs}
IdxGet(dist_pkgs, key) ==
    IF \E i \in DOMAIN dist_pkgs : dist_pkgs[i].key = key
    THEN dist_pkgs[CHOOSE i \in DOMAIN dist_pkgs :
              /\ dist_pkgs[i].key = key
              /\ \A j \in DOMAIN dist_pkgs : dist_pkgs[j].key = key => j <= i]
    ELSE None

\* PackageDAG.from_pkgs (r.project_name, used for display only, is not modelled)
from_pkgs(ps, id) ==
    LET dist_pkgs == [i \in DOMAIN ps |-> DistPackage(ps[i])]
        reqs(i) == [j \in DOMAIN ps[i].requires |->
                      ReqPackage(ps[i].requires[j],
                                 IdxGet(dist_pkgs, ps[i].requires[j].key), <<i, j>>)]
        m == [i \in DOMAIN ps |-> [k |-> dist_pkgs[i], v |-> reqs(i)]]
    IN PackageDAG_init("PackageDAG", m, id)

\* PackageDAG.reverse: the inner loop "for v in vs"
RECURSIVE reverse_edges(_, _, _, _)
reverse_edges(m, k, vs, j) ==
    IF j > Len(vs) THEN m
    ELSE LET v == vs[j]
             node == FirstWithKey(m, v.key, v)
         IN reverse_edges(DictAppend(m, node, as_parent_of(k, v)), k, vs, j + 1)

\* PackageDAG.reverse: the outer loop "for k, vs in self._obj.items()"
RECURSIVE reverse_items(_, _, _, _)
reverse_items(obj, ck, m, i) ==
    IF i > Len(obj) THEN m
    ELSE LET k == obj[i].k
             m1 == reverse_edges(m, k, obj[i].v, 1)
             m2 == IF k.key \notin ck
                   THEN Append(m1, [k |-> as_requirement(k), v |-> <<>>])
                   ELSE m1
         IN reverse_items(obj, ck, m2, i + 1)

\* PackageDAG.reverse
PackageDAG_reverse(self, id) ==
    PackageDAG_init("ReversedPackageDAG",
                    reverse_items(self.obj, child_keys(self.obj), <<>>, 1), id)

\* ReversedPackageDAG.reverse: the inner loop "for v in vs"
RECURSIVE rreverse_edges(_, _, _, _)
rreverse_edges(m, k, vs, j) ==
    IF j > Len(vs) THEN m
    ELSE LET v == vs[j]
             node == FirstWithKey(m, v.key, as_parent_of(v, None))
         IN rreverse_edges(DictAppend(m, node, k), k, vs, j + 1)

\* ReversedPackageDAG.reverse: the outer loop; m[k.dist] = [] also when k.dist is None
RECURSIVE rreverse_items(_, _, _, _)
rreverse_items(obj, ck, m, i) ==
    IF i > Len(obj) THEN m
    ELSE LET k == obj[i].k
             m1 == rreverse_edges(m, k, obj[i].v, 1)
             m2 == IF k.key \notin ck THEN DictSet(m1, k.dist, <<>>) ELSE m1
         IN rreverse_items(obj, ck, m2, i + 1)

\* ReversedPackageDAG.reverse
ReversedPackageDAG_reverse(self, id) ==
    PackageDAG_init("PackageDAG",
                    rreverse_items(self.obj, child_keys(self.obj), <<>>, 1), id)

\* a "set[str] | None" argument that holds a set
SetArg(S) == [kind |-> "set", elems |-> S]

\* truth value of a "set[str] | None" argument
Truthy(arg) == arg # None /\ arg.elems # {}

\* any(fnmatch(key, p) for p in pats)
AnyMatch(key, pats) == \E p \in pats : fnmatch(key, p)

\* "include is None and exclude is None": the mutant forgets the short circuit
ShortCircuit_never(include, exclude) == FALSE

\* filter_nodes: "if include is None and exclude is None: return self"
ShortCircuit(include, exclude) == include = None /\ exclude = None

\* {s.lower() for s in patterns}: the mutant keeps the patterns as written
LowerAll_asis(pats) == pats

\* {s.lower() for s in patterns}
LowerAll(pats) == {lower(s) : s \in pats}

\* [c for c in children if not any(fnmatch(c.key, e) for e in exclude)]: the mutant keeps all
KeptChildren_all(children, exclude) == children

\* [c for c in children if not any(fnmatch(c.key, e) for e in exclude)]
KeptChildren(children, exclude) ==
    SelectSeq(children, LAMBDA c : ~AnyMatch(c.key, exclude))

\* the "for c in cldn" loop: the mutant pushes no child
Pushed_none(self, cldn, seen) == <<>>

\* "if c.key not in seen": the mutant takes every key for unvisited
NotSeen_always(key, seen) == TRUE

\* filter_nodes: "if c.key not in seen"
NotSeen(key, seen) == key \notin seen

\* the "for c in cldn" loop of filter_nodes: the nodes it pushes, in order
Pushed(self, cldn, seen) ==
    LET withNode == SelectSeq(cldn, LAMBDA c :
                        NotSeen(c.key, seen) /\ get_node_as_parent(self, c.key) # None)
    IN [j \in DOMAIN withNode |-> get_node_as_parent(self, withNode[j].key)]

\* filter_nodes: one pass through the body of "while stack", st = [stack, m, seen]
WhileBody(self, exclude, st) ==
    LET n == st.stack[Len(st.stack)]
        rest == SubSeq(st.stack, 1, Len(st.stack) - 1)
        cldn == KeptChildren(DictGet(self.obj, n), exclude)
        seen == st.seen \cup {n.key}
    IN [stack |-> rest \o Pushed(self, cldn, seen),
        m |-> DictSet(st.m, n, cldn),
        seen |-> seen]

\* filter_nodes: "while stack" with st = [stack, m, seen]
RECURSIVE WhileStack(_, _, _)
WhileStack(self, exclude, st) ==
    IF st.stack = <<>> THEN st
    ELSE WhileStack(self, exclude, WhileBody(self, exclude, st))

\* filter_nodes: "if any(fnmatch(node.key, e) for e in exclude): continue": the mutant never skips
IsExcluded_never(node, exclude) == FALSE

\* filter_nodes: "if any(fnmatch(node.key, e) for e in exclude): continue"
IsExcluded(node, exclude) == AnyMatch(node.key, exclude)

\* "include is None or any(fnmatch(node.key, i) for i in include)": the mutant
\* starts a traversal at every node
IsSeed_always(node, include) == TRUE

\* filter_nodes: "if include is None or any(fnmatch(node.key, i) for i in include)"
IsSeed(node, include) == include = None \/ AnyMatch(node.key, include.elems)

\* filter_nodes: "for node in self._obj"
RECURSIVE ForNodes(_, _, _, _, _)
ForNodes(self, include, exclude, i, st) ==
    IF i > Len(self.obj) THEN st
    ELSE LET node == self.obj[i].k
         IN IF IsExcluded(node, exclude)
            THEN ForNodes(self, include, exclude, i + 1, st)
            ELSE LET st1 == IF IsSeed(node, include)
                            THEN [st EXCEPT !.stack = Append(@, node)]
                            ELSE st
                 IN ForNodes(self, include, exclude, i + 1, WhileStack(self, exclude, st1))

\* PackageDAG.filter_nodes
filter_nodes(self, include, exclude, id) ==
    IF ShortCircuit(include, exclude) THEN self
    ELSE LET inc == IF Truthy(include) THEN SetArg(LowerAll(include.elems)) ELSE include
             exc == IF Truthy(exclude) THEN LowerAll(exclude.elems) ELSE {}
         IN IF Truthy(inc) /\ exc # {} /\ inc.elems \cap exc # {}
            THEN [cls |-> "AssertionError"]
            ELSE PackageDAG_init(self.cls,
                     ForNodes(self, inc, exc, 1,
                              [stack |-> <<>>, m |-> <<>>, seen |-> {}]).m,
                     id)

(***************************************************************************)
(* Sorting (_models.py)                                                    *)
(***************************************************************************)
\* ord(c) of the characters that occur in keys
CodePoint(c) ==
    CASE c = "-" -> 45
      [] c = "." -> 46
      [] c = "A" -> 65
      [] c = "B" -> 66
      [] c = "F" -> 70
      [] c = "_" -> 95
      [] c = "a" -> 97
      [] c = "b" -> 98
      [] c = "f" -> 102
      [] c = "z" -> 122

\* s < t on str: at the first position where they differ, or s a proper prefix
StrLess(s, t) ==
    \/ \E i \in DOMAIN s \cap DOMAIN t :
          /\ \A j \in 1..(i - 1) : s[j] = t[j]
          /\ CodePoint(s[i]) < CodePoint(t[i])
    \/ /\ Len(s) < Len(t)
       /\ \A j \in DOMAIN s : s[j] = t[j]

\* Package.__lt__
PackageLt(self, rhs) == StrLess(self.key, rhs.key)

\* one step of a stable sort: x goes before the first element it is less than
InsertPackage(s, x) ==
    LET before == {i \in DOMAIN s : PackageLt(x, s[i])}
        at == IF before = {} THEN Len(s) + 1
              ELSE CHOOSE i \in before : \A j \in before : i <= j
    IN SubSeq(s, 1, at - 1) \o <<x>> \o SubSeq(s, at, Len(s))

\* sorted(v) on a list of packages: the mutant leaves the list as it is
sorted_asis(v, n) == v

\* sorted(v) on the first n packages of the list v
RECURSIVE sorted(_, _)
sorted(v, n) == IF n = 0 THEN <<>> ELSE InsertPackage(sorted(v, n - 1), v[n])

\* (k1, v1) < (k2, v2) on items with distinct key objects: decided by k1 < k2
InsertItem(s, x) ==
    LET before == {i \in DOMAIN s : PackageLt(x.k, s[i].k)}
        at == IF before = {} THEN Len(s) + 1
              ELSE CHOOSE i \in before : \A j \in before : i <= j
    IN SubSeq(s, 1, at - 1) \o <<x>> \o SubSeq(s, at, Len(s))

\* sorted(tree.items()) on the first n items
RECURSIVE sorted_items(_, _)
sorted_items(items, n) ==
    IF n = 0 THEN <<>> ELSE InsertItem(sorted_items(items, n - 1), items[n])

\* {k: sorted(v) for k, v in items}
RECURSIVE SortedComprehension(_, _, _)
SortedComprehension(m, items, i) ==
    IF i > Len(items) THEN m
    ELSE SortedComprehension(DictSet(m, items[i].k, sorted(items[i].v, Len(items[i].v))),
                             items, i + 1)

\* sorted_tree(tree)
sorted_tree(tree_items) ==
    SortedComprehension(<<>>, sorted_items(tree_items, Len(tree_items)), 1)

\* PackageDAG.sort
sort(self, id) == PackageDAG_init(self.cls, sorted_tree(self.obj), id)

(***************************************************************************)
(* Discovery (_discovery.py)                                               *)
(***************************************************************************)
\* "normalized_name not in seen_dists": the mutant never finds a name seen
SeenBefore_never(seen_dists, normalized_name) == FALSE

\* the negation of "normalized_name not in seen_dists"
SeenBefore(seen_dists, normalized_name) == HasKey(seen_dists, normalized_name)

\* get_installed_distributions: "for dist in orginal_dists" with
\* st = [seen_dists, first_seen_to_already_seen_dists_dict, dists]
RECURSIVE ForDists(_, _, _)
ForDists(orginal_dists, i, st) ==
    IF i > Len(orginal_dists) THEN st
    ELSE LET dist == orginal_dists[i]
             normalized_name == util_pep503_normalize(dist.name)
         IN IF ~SeenBefore(st.seen_dists, normalized_name)
            THEN ForDists(orginal_dists, i + 1,
                     [st EXCEPT !.seen_dists = DictSet(@, normalized_name, dist),
                                !.dists = Append(@, dist)])
            ELSE ForDists(orginal_dists, i + 1,
                     [st EXCEPT !.first_seen =
                         DictAppend(@, DictGet(st.seen_dists, normalized_name), dist)])

\* render_duplicated_dist_metadata_text: entries_to_pairs_dict, filled for
\* the duplicates "for dist in dists" of one first-seen distribution
RECURSIVE EntriesOfDists(_, _, _, _)
EntriesOfDists(entries, first_seen, dists, j) ==
    IF j > Len(dists) THEN entries
    ELSE EntriesOfDists(DictAppend(entries, dists[j].path,
                                   [first_seen |-> first_seen, dist |-> dists[j]]),
                        first_seen, dists, j + 1)

\* render_duplicated_dist_metadata_text: "for first_seen, dists in ....items()"
RECURSIVE EntriesToPairs(_, _, _)
EntriesToPairs(first_seen_dict, entries, i) ==
    IF i > Len(first_seen_dict) THEN entries
    ELSE EntriesToPairs(first_seen_dict,
                        EntriesOfDists(entries, first_seen_dict[i].k,
                                       first_seen_dict[i].v, 1),
                        i + 1)

\* one line printed to stderr: what it is and the values formatted into it
Line(what, entry, dist, first_seen) ==
    [what |-> what, entry |-> entry, name |-> dist.name, version |-> dist.version,
     using |-> first_seen.version, at |-> first_seen.path]

NoDist == [name |-> <<>>, version |-> 0, path |-> ""]

\* the lines printed for one entry: the entry, then one line per pair
EntryLines(e) ==
    <<Line("entry", e.k, NoDist, NoDist)>>
        \o [j \in DOMAIN e.v |-> Line("duplicate", e.k, e.v[j].dist, e.v[j].first_seen)]

RECURSIVE AllEntryLines(_, _)
AllEntryLines(entries, i) ==
    IF i > Len(entries) THEN <<>>
    ELSE EntryLines(entries[i]) \o AllEntryLines(entries, i + 1)

\* render_duplicated_dist_metadata_text: the lines it prints to stderr
render_duplicated_dist_metadata_text(first_seen_dict) ==
    <<Line("Warning!!! Duplicate package metadata found:", "", NoDist, NoDist)>>
        \o AllEntryLines(EntriesToPairs(first_seen_dict, <<>>, 1), 1)
        \o <<Line("rule", "", NoDist, NoDist)>>

\* get_installed_distributions, from "seen_dists = {}" on: what it returns
\* and what it prints to stderr
get_installed_distributions(orginal_dists) ==
    LET st == ForDists(orginal_dists, 1,
                       [seen_dists |-> <<>>, first_seen |-> <<>>, dists |-> <<>>])
    IN [dists |-> st.dists,
        err |-> IF st.first_seen # <<>>
                THEN render_duplicated_dist_metadata_text(st.first_seen)
                ELSE <<>>]


(***************************************************************************)
(* DistPackage.requires (_models/package.py)                               *)
(*                                                                         *)
(* A requirement string of the metadata is a record: the name part as a    *)
(* sequence of characters, the version specifier, and the marker after     *)
(* ";" as a sequence of tokens (<<>> when there is none).                  *)
(***************************************************************************)
IsAlnum(c) == c \in {"f", "F", "b"}

\* packaging.requirements.Requirement(r): a name has letters and digits,
\* with ".", "_" and "-" only inside; anything else is an InvalidRequirement
Requirement(r) ==
    IF /\ r.name # <<>>
       /\ \A i \in DOMAIN r.name : IsAlnum(r.name[i]) \/ IsSep(r.name[i])
       /\ IsAlnum(r.name[1])
       /\ IsAlnum(r.name[Len(r.name)])
    THEN [cls |-> "Requirement", name |-> r.name, specifier |-> r.specs,
          marker |-> r.marker]
    ELSE [cls |-> "InvalidRequirement"]

\* contains_extra(str(marker)): re.search(r"\bextra\s*==", marker)
contains_extra(marker) ==
    \E i \in DOMAIN marker :
        i < Len(marker) /\ marker[i] = "extra" /\ marker[i + 1] = "=="

\* the negation of "req.name not in req_name_list"
NameListed(name, req_name_list) ==
    \E j \in DOMAIN req_name_list : req_name_list[j] = name

\* DistPackage.requires: "for r in self._obj.requires" with
\* st = [req_list, req_name_list]; an InvalidRequirement leaves the loop
RECURSIVE ForRequires(_, _, _)
ForRequires(rs, i, st) ==
    IF i > Len(rs) THEN [cls |-> "list", items |-> st.req_list]
    ELSE LET req == Requirement(rs[i])
         IN IF req.cls = "InvalidRequirement"
            THEN [cls |-> "InvalidRequirement", items |-> <<>>]
            ELSE LET is_extra_req == req.marker # <<>> /\ contains_extra(req.marker)
                 IN IF ~is_extra_req /\ ~NameListed(req.name, st.req_name_list)
                    THEN ForRequires(rs, i + 1,
                             [req_list |-> Append(st.req_list, req),
                              req_name_list |-> Append(st.req_name_list, req.name)])
                    ELSE ForRequires(rs, i + 1, st)

\* DistPackage.requires: the list it returns or the exception it raises
requires(obj) ==
    ForRequires(obj.requires, 1, [req_list |-> <<>>, req_name_list |-> <<>>])

\* PackageDAG.from_pkgs where p.requires() is DistPackage.requires: an
\* exception raised by requires() leaves from_pkgs; r.key is the key that
\* Package.__init__ gives the requirement's name
from_declared(ds, id) ==
    LET rq == [i \in DOMAIN ds |-> requires(ds[i])]
    IN IF \E i \in DOMAIN ds : rq[i].cls = "InvalidRequirement"
       THEN [cls |-> "InvalidRequirement"]
       ELSE from_pkgs([i \in DOMAIN ds |->
                         [key |-> ds[i].key, version |-> ds[i].version,
                          requires |-> [j \in DOMAIN rq[i].items |->
                                          [key |-> Package(rq[i].items[j].name).key,
                                           specs |-> rq[i].items[j].specifier]]]],
                      id)


(***************************************************************************)
(* Installed versions and conflicts (_models.py, _validate.py)             *)
(*                                                                         *)
(* The running environment env is what the interpreter can look up:        *)
(* env.dists, the distributions importlib.metadata.version finds, and      *)
(* env.modules, the importable modules that have a __version__.            *)
(***************************************************************************)
\* ReqPackage.UNKNOWN_VERSION, the string "?": no distribution has version 0
UNKNOWN_VERSION == 0

Setuptools == <<"s", "e", "t", "u", "p", "t", "o", "o", "l", "s">>

\* the version the collection found (of env.dists or env.modules) has for key
Lookup(found, key) == (CHOOSE d \in found : d.key = key).version

\* guess_version(pkg_key, default)
guess_version(pkg_key, default, env) ==
    IF \E d \in env.dists : d.key = pkg_key
    THEN Lookup(env.dists, pkg_key)
    ELSE IF pkg_key \in {Setuptools}
         THEN default
         ELSE IF \E m \in env.modules : m.key = pkg_key
              THEN Lookup(env.modules, pkg_key)
              ELSE default

\* ReqPackage.installed_version
installed_version(self, env) ==
    IF self.dist = None
    THEN guess_version(self.key, UNKNOWN_VERSION, env)
    ELSE self.dist.version

\* one (operator, version) pair of a specifier, for the version v
SpecHolds(sp, v) ==
    CASE sp.op = ">=" -> v >= sp.ver
      [] sp.op = "<" -> v < sp.ver
      [] sp.op = "==" -> v = sp.ver

\* "self.installed_version not in req_obj", negated: the mutant lets no version in
Satisfies_none(v, specs) == FALSE

\* "self.installed_version not in req_obj", negated: every pair of the
\* specifier holds, and a requirement without specifier contains every version
Satisfies(v, specs) == \A n \in DOMAIN specs : SpecHolds(specs[n], v)

\* "self.installed_version == self.UNKNOWN_VERSION": the mutant never sees "?"
IsUnknown_never(v) == FALSE

\* "self.installed_version == self.UNKNOWN_VERSION"
IsUnknown(v) == v = UNKNOWN_VERSION

\* ReqPackage.is_conflicting
is_conflicting(self, env) ==
    IF IsUnknown(installed_version(self, env))
    THEN TRUE
    ELSE ~Satisfies(installed_version(self, env), self.specs)

\* "conflicting = defaultdict(list)": the mutant starts with every package listed
NewConflicting_allkeys(tree_items) ==
    [i \in DOMAIN tree_items |-> [k |-> tree_items[i].k, v |-> <<>>]]

\* "conflicting = defaultdict(list)"
NewConflicting(tree_items) == <<>>

\* conflicting_deps: "for req in requires"
RECURSIVE ConflictingOfReqs(_, _, _, _, _)
ConflictingOfReqs(conflicting, package, reqs, j, env) ==
    IF j > Len(reqs) THEN conflicting
    ELSE ConflictingOfReqs(IF is_conflicting(reqs[j], env)
                           THEN DictAppend(conflicting, package, reqs[j])
                           ELSE conflicting,
                           package, reqs, j + 1, env)

\* conflicting_deps: "for package, requires in tree.items()"
RECURSIVE ConflictingOfItems(_, _, _, _)
ConflictingOfItems(conflicting, tree_items, i, env) ==
    IF i > Len(tree_items) THEN conflicting
    ELSE ConflictingOfItems(ConflictingOfReqs(conflicting, tree_items[i].k,
                                              tree_items[i].v, 1, env),
                            tree_items, i + 1, env)

\* conflicting_deps(tree)
conflicting_deps(self, env) ==
    ConflictingOfItems(NewConflicting(self.obj), self.obj, 1, env)

\* {r.key for r in rs}
KeySet(rs) == {rs[j].key : j \in DOMAIN rs}

\* index.get(key, []) with index = {p.key: {r.key for r in rs} for p, rs in tree.items()}
CycleIndexGet(tree_items, key) ==
    IF \E i \in DOMAIN tree_items : tree_items[i].k.key = key
    THEN KeySet(tree_items[CHOOSE i \in DOMAIN tree_items :
                    /\ tree_items[i].k.key = key
                    /\ \A n \in DOMAIN tree_items :
                          tree_items[n].k.key = key => n <= i].v)
    ELSE {}

\* "p.key in index.get(r.key, [])": the mutant finds no parent among the children
RequiresBack_never(tree_items, p, r) == FALSE

\* "p.key in index.get(r.key, [])"
RequiresBack(tree_items, p, r) == p.key \in CycleIndexGet(tree_items, r.key)

\* next(x for x in entry if x.key == key): the mutant takes the first child
\* whatever its key
FirstChildWithKey_first(entry, key) == entry[1]

\* next(x for x in entry if x.key == key)
FirstChildWithKey(entry, key) ==
    entry[CHOOSE j \in DOMAIN entry :
              /\ entry[j].key = key
              /\ \A n \in DOMAIN entry : entry[n].key = key => j <= n]

\* cyclic_deps: "for r in rs"; tree.get(val) is the child list of the node val
RECURSIVE CyclicOfReqs(_, _, _, _, _)
CyclicOfReqs(cyclic, self, p, rs, j) ==
    IF j > Len(rs) THEN cyclic
    ELSE LET r == rs[j]
             val == get_node_as_parent(self, r.key)
         IN CyclicOfReqs(
                IF RequiresBack(self.obj, p, r) /\ val # None
                THEN Append(cyclic,
                            <<p, r, FirstChildWithKey(DictGet(self.obj, val), p.key)>>)
                ELSE cyclic,
                self, p, rs, j + 1)

\* cyclic_deps: "for p, rs in tree.items()"
RECURSIVE CyclicOfItems(_, _, _)
CyclicOfItems(cyclic, self, i) ==
    IF i > Len(self.obj) THEN cyclic
    ELSE CyclicOfItems(CyclicOfReqs(cyclic, self, self.obj[i].k, self.obj[i].v, 1),
                       self, i + 1)

\* cyclic_deps(tree)
cyclic_deps(self) == CyclicOfItems(<<>>, self, 1)


(***************************************************************************)
(* Graphs as objects in memory (_models.py)                                *)
(*                                                                         *)
(* The operations once more, with every list an object of its own: heap is *)
(* the sequence of all list objects, the address of a list is its place in *)
(* heap, and a dict entry [k, v] holds the address v of its child list.    *)
(* list.append changes the list at its address; a list display, a list     *)
(* comprehension, sorted() and the default of a defaultdict(list) make a   *)
(* new list.                                                               *)
(***************************************************************************)
\* a new list object: the mutant hands out an existing list of equal content
NewList_shared(heap, content) ==
    IF \E a \in DOMAIN heap : heap[a] = content
    THEN [heap |-> heap, addr |-> CHOOSE a \in DOMAIN heap : heap[a] = content]
    ELSE [heap |-> Append(heap, content), addr |-> Len(heap) + 1]

\* a new list object holding content
NewList(heap, content) == [heap |-> Append(heap, content), addr |-> Len(heap) + 1]

\* the graph object g with the lists it points to
Deref(heap, g) ==
    [cls |-> g.cls, id |-> g.id,
     obj |-> [i \in DOMAIN g.obj |-> [k |-> g.obj[i].k, v |-> heap[g.obj[i].v]]],
     index |-> g.index]

\* m[node].append(x) on a defaultdict(list), st = [heap, m]
MemDictAppend(st, node, x) ==
    IF HasKey(st.m, node)
    THEN [st EXCEPT !.heap[DictGet(st.m, node)] = Append(@, x)]
    ELSE LET new == NewList(st.heap, <<>>)
         IN [heap |-> [new.heap EXCEPT ![new.addr] = Append(@, x)],
             m |-> Append(st.m, [k |-> node, v |-> new.addr])]

\* m[node] = a new list holding content
MemDictSetNew(st, node, content) ==
    LET new == NewList(st.heap, content)
    IN [heap |-> new.heap, m |-> DictSet(st.m, node, new.addr)]

\* {r.key for r in chain.from_iterable(self._obj.values())}
Mem_child_keys(heap, obj) ==
    UNION {{heap[obj[i].v][j].key : j \in DOMAIN heap[obj[i].v]} : i \in DOMAIN obj}

\* PackageDAG.from_pkgs: a dict display whose values are list comprehensions
RECURSIVE Mem_from_items(_, _, _)
Mem_from_items(st, items, i) ==
    IF i > Len(items) THEN st
    ELSE Mem_from_items(MemDictSetNew(st, items[i].k, items[i].v), items, i + 1)

Mem_from_pkgs(ps, id) ==
    LET g == from_pkgs(ps, id)
        st == Mem_from_items([heap |-> <<>>, m |-> <<>>], g.obj, 1)
    IN [heap |-> st.heap, graph |-> PackageDAG_init("PackageDAG", st.m, id)]

\* PackageDAG.reverse: "for v in vs", vs the list at the address a
RECURSIVE Mem_reverse_edges(_, _, _, _)
Mem_reverse_edges(st, k, a, j) ==
    IF j > Len(st.heap[a]) THEN st
    ELSE LET v == st.heap[a][j]
             node == FirstWithKey(st.m, v.key, v)
         IN Mem_reverse_edges(MemDictAppend(st, node, as_parent_of(k, v)), k, a, j + 1)

\* PackageDAG.reverse: "for k, vs in self._obj.items()"
RECURSIVE Mem_reverse_items(_, _, _, _)
Mem_reverse_items(obj, ck, st, i) ==
    IF i > Len(obj) THEN st
    ELSE LET k == obj[i].k
             st1 == Mem_reverse_edges(st, k, obj[i].v, 1)
             st2 == IF k.key \notin ck
                    THEN MemDictSetNew(st1, as_requirement(k), <<>>)
                    ELSE st1
         IN Mem_reverse_items(obj, ck, st2, i + 1)

\* PackageDAG.reverse
Mem_PackageDAG_reverse(heap, self, id) ==
    LET st == Mem_reverse_items(self.obj, Mem_child_keys(heap, self.obj),
                                [heap |-> heap, m |-> <<>>], 1)
    IN [heap |-> st.heap, graph |-> PackageDAG_init("ReversedPackageDAG", st.m, id)]

\* ReversedPackageDAG.reverse: "for v in vs", vs the list at the address a
RECURSIVE Mem_rreverse_edges(_, _, _, _)
Mem_rreverse_edges(st, k, a, j) ==
    IF j > Len(st.heap[a]) THEN st
    ELSE LET v == st.heap[a][j]
             node == FirstWithKey(st.m, v.key, as_parent_of(v, None))
         IN Mem_rreverse_edges(MemDictAppend(st, node, k), k, a, j + 1)

\* ReversedPackageDAG.reverse: "for k, vs in self._obj.items()"
RECURSIVE Mem_rreverse_items(_, _, _, _)
Mem_rreverse_items(obj, ck, st, i) ==
    IF i > Len(obj) THEN st
    ELSE LET k == obj[i].k
             st1 == Mem_rreverse_edges(st, k, obj[i].v, 1)
             st2 == IF k.key \notin ck THEN MemDictSetNew(st1, k.dist, <<>>) ELSE st1
         IN Mem_rreverse_items(obj, ck, st2, i + 1)

\* ReversedPackageDAG.reverse
Mem_ReversedPackageDAG_reverse(heap, self, id) ==
    LET st == Mem_rreverse_items(self.obj, Mem_child_keys(heap, self.obj),
                                 [heap |-> heap, m |-> <<>>], 1)
    IN [heap |-> st.heap, graph |-> PackageDAG_init("PackageDAG", st.m, id)]

\* filter_nodes: the body of "while stack", st = [stack, m, seen, heap];
\* cldn is a list comprehension and m[n] = cldn stores that list
Mem_WhileBody(self, exclude, st) ==
    LET n == st.stack[Len(st.stack)]
        rest == SubSeq(st.stack, 1, Len(st.stack) - 1)
        cldn == KeptChildren(st.heap[DictGet(self.obj, n)], exclude)
        new == NewList(st.heap, cldn)
        seen == st.seen \cup {n.key}
    IN [stack |-> rest \o Pushed(self, cldn, seen),
        m |-> DictSet(st.m, n, new.addr),
        seen |-> seen,
        heap |-> new.heap]

\* filter_nodes: "while stack"
RECURSIVE Mem_WhileStack(_, _, _)
Mem_WhileStack(self, exclude, st) ==
    IF st.stack = <<>> THEN st
    ELSE Mem_WhileStack(self, exclude, Mem_WhileBody(self, exclude, st))

\* filter_nodes: "for node in self._obj"
RECURSIVE Mem_ForNodes(_, _, _, _, _)
Mem_ForNodes(self, include, exclude, i, st) ==
    IF i > Len(self.obj) THEN st
    ELSE LET node == self.obj[i].k
         IN IF IsExcluded(node, exclude)
            THEN Mem_ForNodes(self, include, exclude, i + 1, st)
            ELSE LET st1 == IF IsSeed(node, include)
                            THEN [st EXCEPT !.stack = Append(@, node)]
                            ELSE st
                 IN Mem_ForNodes(self, include, exclude, i + 1,
                                 Mem_WhileStack(self, exclude, st1))

\* PackageDAG.filter_nodes
Mem_filter_nodes(heap, self, include, exclude, id) ==
    IF ShortCircuit(include, exclude) THEN [heap |-> heap, graph |-> self]
    ELSE LET inc == IF Truthy(include) THEN SetArg(LowerAll(include.elems)) ELSE include
             exc == IF Truthy(exclude) THEN LowerAll(exclude.elems) ELSE {}
         IN IF Truthy(inc) /\ exc # {} /\ inc.elems \cap exc # {}
            THEN [heap |-> heap, graph |-> [cls |-> "AssertionError"]]
            ELSE LET st == Mem_ForNodes(self, inc, exc, 1,
                               [stack |-> <<>>, m |-> <<>>, seen |-> {}, heap |-> heap])
                 IN [heap |-> st.heap, graph |-> PackageDAG_init(self.cls, st.m, id)]

\* {k: sorted(v) for k, v in items}: every sorted(v) is a new list
RECURSIVE Mem_SortedComprehension(_, _, _)
Mem_SortedComprehension(st, items, i) ==
    IF i > Len(items) THEN st
    ELSE LET v == st.heap[items[i].v]
         IN Mem_SortedComprehension(MemDictSetNew(st, items[i].k, sorted(v, Len(v))),
                                    items, i + 1)

\* PackageDAG.sort
Mem_sort(heap, self, id) ==
    LET st == Mem_SortedComprehension([heap |-> heap, m |-> <<>>],
                                      sorted_items(self.obj, Len(self.obj)), 1)
    IN [heap |-> st.heap, graph |-> PackageDAG_init(self.cls, st.m, id)]

(***************************************************************************)
(* Warnings (_warning.py)                                                  *)
(*                                                                         *)
(* A WarningPrinter is its two fields and what it wrote to sys.stderr, one *)
(* entry per printed line.                                                 *)
(***************************************************************************)
\* WarningType = Enum("WarningType", ["SILENCE", "SUPPRESS", "FAIL"])
WarningType == {[enum |-> "SILENCE"], [enum |-> "SUPPRESS"], [enum |-> "FAIL"]}

\* WarningPrinter.__init__
WarningPrinter ==
    [warning_type |-> [enum |-> "SUPPRESS"], has_warned |-> FALSE, file |-> <<>>]

\* the setter of WarningPrinter.warning_type
set_warning_type(self, new_warning_type) ==
    [self EXCEPT !.warning_type = new_warning_type]

\* WarningPrinter.should_warn
should_warn(self) == self.warning_type # [enum |-> "SILENCE"]

\* WarningPrinter.has_warned_with_failure
has_warned_with_failure(self) ==
    self.has_warned /\ self.warning_type = [enum |-> "FAIL"]

\* WarningPrinter.print_single_line
print_single_line(self, line) ==
    [self EXCEPT !.has_warned = TRUE, !.file = Append(@, line)]

\* print_multi_line, "if ignore_fail: ... else: self._has_warned = True": the
\* mutant sets the flag whatever ignore_fail is
WarnedAfterMultiLine_always(has_warned, ignore_fail) == TRUE

\* print_multi_line: "if ignore_fail: ... else: self._has_warned = True"
WarnedAfterMultiLine(has_warned, ignore_fail) ==
    IF ignore_fail THEN has_warned ELSE TRUE

\* WarningPrinter.print_multi_line; body is what print_func prints
print_multi_line(self, summary, body, ignore_fail) ==
    [self EXCEPT
        !.has_warned = WarnedAfterMultiLine(@, ignore_fail),
        !.file = @ \o <<"Warning!!! " \o summary \o ":">> \o body
                   \o (IF ignore_fail
                       THEN <<"NOTE: This warning isn't a failure warning.">>
                       ELSE <<>>)
                   \o <<"------------------------------------------------------------------------">>]

(***************************************************************************)
(* main (__main__.py)                                                      *)
(*                                                                         *)
(* The value of --warn is the str argparse stored, [str |-> ...], unless   *)
(* main replaced it by a member of WarningType.  A run records the calls   *)
(* main made, in order, the --warn value of the command line, and how main *)
(* ended: [returned |-> code] or [raised |-> exception class].             *)
(***************************************************************************)
\* "not any([options.json, options.json_tree, options.output_format])"
is_text_output(options) ==
    ~(options.json \/ options.json_tree \/ options.output_format # None)

\* main: "if not is_text_output: options.warn = WarningType.SILENCE"
WarnOption(options) ==
    IF is_text_output(options) THEN options.warn ELSE [enum |-> "SILENCE"]

\* the parameters of get_installed_distributions
get_installed_distributions_params == {"local_only", "user_only"}

\* the keyword arguments main passes to get_installed_distributions
MainDiscoveryKeywords == {"interpreter", "supplied_paths", "local_only", "user_only"}

\* a call by keywords binds when every keyword names a parameter; otherwise
\* Python raises TypeError (unexpected keyword argument)
CallBinds(params, keywords) == keywords \subseteq params

\* _determine_return_code
determine_return_code(printer) == IF has_warned_with_failure(printer) THEN 1 ELSE 0

(***************************************************************************)
(* Inputs                                                                  *)
(***************************************************************************)
\* sequences over S of length lo..hi
SeqsUpTo(S, lo, hi) == UNION {[1..n -> S] : n \in lo..hi}

DistinctKeys(s) == \A i, j \in DOMAIN s : i # j => s[i].key # s[j].key

Requirements == [key : ReqKeys, specs : SpecChoices]

\* what requires() of one distribution may return
RequiresLists == {s \in SeqsUpTo(Requirements, 0, MaxReqs) : DistinctKeys(s)}

RECURSIVE SumLen(_, _)
SumLen(rl, i) == IF i > Len(rl) THEN 0 ELSE Len(rl[i]) + SumLen(rl, i + 1)

KeyLists == {s \in SeqsUpTo(InstalledKeys, 1, MaxPkgs) :
                \A i, j \in DOMAIN s : i # j => s[i] # s[j]}

\* the lists get_installed_distributions may hand to from_pkgs: one distribution per key
PkgLists ==
    UNION {{[i \in DOMAIN ks |-> [key |-> ks[i], version |-> 1, requires |-> rl[i]]] :
               rl \in {r \in [DOMAIN ks -> RequiresLists] : SumLen(r, 1) <= MaxEdges}} :
           ks \in KeyLists}

\* distributions that may share a key: two installs of one project differ in version
DupDists == [key : {KA, KB}, version : {1, 2}]

DupKeyLists(n) == {s \in SeqsUpTo(DupDists, 1, n) :
                      \A i, j \in DOMAIN s : i # j => s[i] # s[j]}

\* lists of up to n distributions handed to from_pkgs directly, where a key
\* may occur more than once
DupPkgLists(n) ==
    UNION {{[i \in DOMAIN ds |->
                [key |-> ds[i].key, version |-> ds[i].version, requires |-> rl[i]]] :
               rl \in {r \in [DOMAIN ds -> RequiresLists] : SumLen(r, 1) <= MaxEdges}} :
           ds \in DupKeyLists(n)}

\* names, versions and locations of the distributions an environment may hold
DistNames == {<<"f">>, <<"F">>, <<"f", ".", "b">>, <<"f", "_", "b">>}

FoundDists == [name : DistNames, version : {1, 2}, path : {"/path/1", "/path/2"}]

\* what importlib.metadata.distributions() may yield, up to n distributions;
\* oid tells the objects apart
OrigLists(n) ==
    {[i \in DOMAIN s |-> [name |-> s[i].name, version |-> s[i].version,
                          path |-> s[i].path, oid |-> i]] :
        s \in SeqsUpTo(FoundDists, 0, n)}

NoMarker == <<>>
ExtraMarker == <<"extra", "==", "testing">>
FalseMarker == <<"sys_platform", "==", "NoexistOS">>
TrueMarker == <<"sys_platform", "==", "linux">>

DeclString(name, specs, marker) == [name |-> name, specs |-> specs, marker |-> marker]

GeOne == <<[op |-> ">=", ver |-> 1]>>

\* requirement strings a distribution's metadata may declare
DeclStrings ==
    {DeclString(<<"f">>, NoSpec, NoMarker),
     DeclString(<<"f">>, GeOne, NoMarker),
     DeclString(<<"b">>, GeOne, NoMarker),
     DeclString(<<"f", ".", "b">>, NoSpec, NoMarker),
     DeclString(<<"f", "-", "b">>, NoSpec, NoMarker),
     DeclString(<<"f", "*", "*", "b">>, GeOne, NoMarker),
     DeclString(<<"f">>, NoSpec, FalseMarker),
     DeclString(<<"b">>, NoSpec, TrueMarker),
     DeclString(<<"b">>, GeOne, ExtraMarker)}

\* what a second distribution may declare
FewDeclLists ==
    {<<>>, <<DeclString(<<"f">>, NoSpec, NoMarker)>>,
     <<DeclString(<<"f", "*", "*", "b">>, GeOne, NoMarker)>>}

DeclDist(key, strings) == [key |-> key, version |-> 1, requires |-> strings]

\* the distributions whose declared requirements are read: f alone or f
\* and b, f with up to n requirement strings
DeclLists(n) ==
    {<<DeclDist(<<"f">>, rs)>> : rs \in SeqsUpTo(DeclStrings, 0, n)}
    \cup {<<DeclDist(<<"f">>, rs), DeclDist(<<"b">>, qs)>> :
              rs \in SeqsUpTo(DeclStrings, 0, n), qs \in FewDeclLists}

\* specifiers of the requirements whose satisfaction is checked
ValSpecs == {NoSpec, <<[op |-> ">=", ver |-> 2]>>, <<[op |-> "<", ver |-> 2]>>}

ValRequirements == [key : {KA, KB, KAB}, specs : ValSpecs]

ValRequiresLists(n) == {s \in SeqsUpTo(ValRequirements, 0, n) : DistinctKeys(s)}

ValKeyLists(n) == {s \in SeqsUpTo({KA, KB}, 1, n) :
                      \A i, j \in DOMAIN s : i # j => s[i] # s[j]}

\* the versions a distribution of key K may have
ValVersions(K) == IF K = KA THEN {1} ELSE {1, 2}

\* lists of up to n distributions, one per key, whose requirements are validated
ValPkgLists(n) ==
    UNION {{[i \in DOMAIN ks |-> [key |-> ks[i], version |-> vs[i], requires |-> rl[i]]] :
               rl \in {r \in [DOMAIN ks -> ValRequiresLists(MaxReqs)] :
                          SumLen(r, 1) <= MaxEdges},
               vs \in {v \in [DOMAIN ks -> {1, 2}] :
                          \A i \in DOMAIN ks : v[i] \in ValVersions(ks[i])}} :
           ks \in ValKeyLists(n)}

\* running environments: nothing else to find, a-b installed outside the
\* given list, b an importable module with a __version__
EnvChoices ==
    {[dists |-> {}, modules |-> {}],
     [dists |-> {[key |-> KAB, version |-> 1]}, modules |-> {}],
     [dists |-> {}, modules |-> {[key |-> KB, version |-> 2]}]}

\* requirements without specifier among the three installable keys
CycRequiresLists(n) ==
    {s \in SeqsUpTo([key : {KA, KB, KAB}, specs : {NoSpec}], 0, n) : DistinctKeys(s)}

CycKeyLists(n) == {s \in SeqsUpTo({KA, KB, KAB}, 1, n) :
                      \A i, j \in DOMAIN s : i # j => s[i] # s[j]}

\* lists of up to n distributions, one per key, that may require one another
\* in cycles of one, two or three packages
CycPkgLists(n) ==
    UNION {{[i \in DOMAIN ks |-> [key |-> ks[i], version |-> 1, requires |-> rl[i]]] :
               rl \in {r \in [DOMAIN ks -> CycRequiresLists(MaxReqs)] :
                          SumLen(r, 1) <= MaxEdges}} :
           ks \in CycKeyLists(n)}

\* what get_options returns for the command lines considered: --warn, the
\* output switches, --reverse, --packages and --exclude (None when absent);
\* --python is left at its default, so that no interpreter is looked for
OptionsSet ==
    [warn : {[str |-> "silence"], [str |-> "suppress"], [str |-> "fail"]},
     json : BOOLEAN,
     json_tree : BOOLEAN,
     output_format : {None, [str |-> "dot"]},
     reverse : BOOLEAN,
     packages : {None, [str |-> "a"], [str |-> "z"]},
     exclude : {None, [str |-> "a"], [str |-> "b"]}]

\* the arguments of the filter_nodes calls that are followed step by step
TravIncludes == {None, SetArg({<<"a">>}), SetArg({<<"a", "*">>})}

TravExcludes == {None, SetArg({<<"b">>})}

PatternSets ==
    {S \in SUBSET Patterns : Cardinality(S) <= 1} \cup {{<<"a">>, <<"z">>}}

\* characters of raw package names
NameChars == {"f", "F", "b", ".", "_", "-"}

RawNames == SeqsUpTo(NameChars, 1, MaxName)

FilterArgs == {None} \cup {SetArg(S) : S \in PatternSets}

(***************************************************************************)
(* Operations                                                              *)
(***************************************************************************)
Init ==
    /\ pkgs = <<>>
    /\ tree = None
    /\ src = None
    /\ cur = None
    /\ last = [op |-> "init"]
    /\ hist = <<>>
    /\ nextid = 1
    /\ raw = <<>>
    /\ norm = None
    /\ orig = None
    /\ inst = None
    /\ decl = None
    /\ reqd = None
    /\ environ = None
    /\ conflicts = None
    /\ cycles = None
    /\ warning_printer = WarningPrinter
    /\ wlog = <<>>
    /\ run = None
    /\ trav = None
    /\ mem = None

Allocated(result, id) == IF IsGraph(result) /\ result.id = id THEN id + 1 ELSE id

\* tree = PackageDAG.from_pkgs(pkgs)
FromPkgs ==
    /\ tree = None
    /\ \E ps \in PkgLists :
          /\ pkgs' = ps
          /\ tree' = from_pkgs(ps, nextid)
          /\ cur' = from_pkgs(ps, nextid)
    /\ src' = None
    /\ last' = [op |-> "from_pkgs"]
    /\ hist' = <<>>
    /\ nextid' = nextid + 1
    /\ UNCHANGED <<raw, norm>>
    /\ UNCHANGED restvars
    /\ UNCHANGED progvars

\* tree = PackageDAG.from_pkgs(pkgs) on a list that may repeat a key
FromPkgsDup ==
    /\ tree = None
    /\ \E ps \in DupPkgLists(MaxPkgs) :
          /\ pkgs' = ps
          /\ tree' = from_pkgs(ps, nextid)
          /\ cur' = from_pkgs(ps, nextid)
    /\ src' = None
    /\ last' = [op |-> "from_pkgs"]
    /\ hist' = <<>>
    /\ nextid' = nextid + 1
    /\ UNCHANGED <<raw, norm>>
    /\ UNCHANGED restvars
    /\ UNCHANGED progvars

CanOperate == tree # None /\ IsGraph(cur) /\ last.op # "filter_nodes"

NRev == Cardinality({i \in DOMAIN hist : hist[i] = "reverse"})

\* cur.reverse() on a PackageDAG
Reverse ==
    /\ CanOperate
    /\ cur.cls = "PackageDAG"
    /\ NRev < MaxRev
    /\ cur' = PackageDAG_reverse(cur, nextid)
    /\ src' = cur
    /\ last' = [op |-> "reverse"]
    /\ hist' = Append(hist, "reverse")
    /\ nextid' = Allocated(cur', nextid)
    /\ UNCHANGED <<pkgs, tree, raw, norm>>
    /\ UNCHANGED restvars
    /\ UNCHANGED progvars

\* cur.reverse() on a ReversedPackageDAG
ReverseReversed ==
    /\ CanOperate
    /\ cur.cls = "ReversedPackageDAG"
    /\ NRev < MaxRev
    /\ cur' = ReversedPackageDAG_reverse(cur, nextid)
    /\ src' = cur
    /\ last' = [op |-> "reverse"]
    /\ hist' = Append(hist, "reverse")
    /\ nextid' = Allocated(cur', nextid)
    /\ UNCHANGED <<pkgs, tree, raw, norm>>
    /\ UNCHANGED restvars
    /\ UNCHANGED progvars

\* cur.filter_nodes(include, exclude); as in main, nothing but rendering follows
FilterNodes ==
    /\ CanOperate
    /\ \E include \in FilterArgs, exclude \in FilterArgs :
          /\ cur' = filter_nodes(cur, include, exclude, nextid)
          /\ last' = [op |-> "filter_nodes", include |-> include, exclude |-> exclude]
    /\ src' = cur
    /\ hist' = Append(hist, "filter_nodes")
    /\ nextid' = Allocated(cur', nextid)
    /\ UNCHANGED <<pkgs, tree, raw, norm>>
    /\ UNCHANGED restvars
    /\ UNCHANGED progvars

\* a raw package name arrives
PickName ==
    /\ raw = <<>>
    /\ raw' \in RawNames
    /\ UNCHANGED <<pkgs, tree, src, cur, last, hist, nextid, norm>>
    /\ UNCHANGED restvars
    /\ UNCHANGED progvars

\* every "-" , "_" and "." of s written as "-"
SepsAsDash(s) == [i \in 1..Len(s) |-> IF IsSep(s[i]) THEN "-" ELSE s[i]]

\* Package(raw): the key of raw, of the key itself, and of raw written in
\* lower case and with "-" as its only separator
Normalize ==
    /\ raw # <<>>
    /\ norm = None
    /\ norm' = [key |-> Package(raw).key,
                again |-> pep503_normalize(Package(raw).key),
                ofLower |-> Package(lower(raw)).key,
                ofDashed |-> Package(SepsAsDash(raw)).key,
                util |-> util_pep503_normalize(raw)]
    /\ UNCHANGED <<pkgs, tree, src, cur, last, hist, nextid, raw>>
    /\ UNCHANGED restvars
    /\ UNCHANGED progvars

Next == FromPkgs \/ Reverse \/ ReverseReversed \/ FilterNodes

Spec == Init /\ [][Next]_vars

\* orginal_dists = distributions()
Distributions ==
    /\ orig = None
    /\ \E od \in OrigLists(MaxFound) : orig' = [dists |-> od]
    /\ UNCHANGED <<pkgs, tree, src, cur, last, hist, nextid, raw, norm>>
    /\ UNCHANGED <<inst, decl, reqd, environ, conflicts, cycles>>
    /\ UNCHANGED progvars

\* the rest of get_installed_distributions
GetInstalledDistributions ==
    /\ orig # None
    /\ inst = None
    /\ inst' = get_installed_distributions(orig.dists)
    /\ UNCHANGED <<pkgs, tree, src, cur, last, hist, nextid, raw, norm>>
    /\ UNCHANGED <<orig, decl, reqd, environ, conflicts, cycles>>
    /\ UNCHANGED progvars

\* distributions arrive with the requirement strings of their metadata
Declare ==
    /\ decl = None
    /\ \E ds \in DeclLists(MaxDecl) : decl' = [dists |-> ds]
    /\ UNCHANGED <<pkgs, tree, src, cur, last, hist, nextid, raw, norm>>
    /\ UNCHANGED <<orig, inst, reqd, environ, conflicts, cycles>>
    /\ UNCHANGED progvars

\* DistPackage(d).requires() for every distribution d
Requires ==
    /\ decl # None
    /\ reqd = None
    /\ reqd' = [of |-> [i \in DOMAIN decl.dists |-> requires(decl.dists[i])]]
    /\ UNCHANGED <<pkgs, tree, src, cur, last, hist, nextid, raw, norm>>
    /\ UNCHANGED <<orig, inst, decl, environ, conflicts, cycles>>
    /\ UNCHANGED progvars

\* tree = PackageDAG.from_pkgs(decl); neither from_pkgs nor requires()
\* prints anything: err is what went to stderr
FromDeclared ==
    /\ decl # None
    /\ tree = None
    /\ tree' = from_declared(decl.dists, nextid)
    /\ cur' = from_declared(decl.dists, nextid)
    /\ src' = None
    /\ last' = [op |-> "from_pkgs", err |-> <<>>]
    /\ hist' = <<>>
    /\ nextid' = nextid + 1
    /\ UNCHANGED <<pkgs, raw, norm>>
    /\ UNCHANGED restvars
    /\ UNCHANGED progvars

\* tree = PackageDAG.from_pkgs(pkgs) in a running environment
FromPkgsVal ==
    /\ tree = None
    /\ \E ps \in ValPkgLists(MaxPkgs) :
          /\ pkgs' = ps
          /\ tree' = from_pkgs(ps, nextid)
          /\ cur' = from_pkgs(ps, nextid)
    /\ environ' \in EnvChoices
    /\ src' = None
    /\ last' = [op |-> "from_pkgs"]
    /\ hist' = <<>>
    /\ nextid' = nextid + 1
    /\ UNCHANGED <<raw, norm>>
    /\ UNCHANGED <<orig, inst, decl, reqd, conflicts, cycles>>
    /\ UNCHANGED progvars

\* conflicts = conflicting_deps(tree)
ConflictingDeps ==
    /\ tree # None
    /\ conflicts = None
    /\ conflicts' = [of |-> conflicting_deps(tree, environ)]
    /\ UNCHANGED <<pkgs, tree, src, cur, last, hist, nextid, raw, norm>>
    /\ UNCHANGED <<orig, inst, decl, reqd, environ, cycles>>
    /\ UNCHANGED progvars

\* cycles = cyclic_deps(tree)
CyclicDeps ==
    /\ tree # None
    /\ cycles = None
    /\ cycles' = [of |-> cyclic_deps(tree)]
    /\ UNCHANGED <<pkgs, tree, src, cur, last, hist, nextid, raw, norm>>
    /\ UNCHANGED <<orig, inst, decl, reqd, environ, conflicts>>
    /\ UNCHANGED progvars

\* tree = PackageDAG.from_pkgs(pkgs) for distributions over three keys
FromPkgsCyc ==
    /\ tree = None
    /\ \E ps \in CycPkgLists(MaxPkgs) :
          /\ pkgs' = ps
          /\ tree' = from_pkgs(ps, nextid)
          /\ cur' = from_pkgs(ps, nextid)
    /\ src' = None
    /\ last' = [op |-> "from_pkgs"]
    /\ hist' = <<>>
    /\ nextid' = nextid + 1
    /\ UNCHANGED <<raw, norm>>
    /\ UNCHANGED <<orig, inst, decl, reqd, environ, conflicts, cycles>>
    /\ UNCHANGED progvars

NSort == Cardinality({i \in DOMAIN hist : hist[i] = "sort"})

\* cur.sort()
Sort ==
    /\ CanOperate
    /\ NSort < MaxSort
    /\ cur' = sort(cur, nextid)
    /\ src' = cur
    /\ last' = [op |-> "sort"]
    /\ hist' = Append(hist, "sort")
    /\ nextid' = Allocated(cur', nextid)
    /\ UNCHANGED <<pkgs, tree, raw, norm>>
    /\ UNCHANGED restvars
    /\ UNCHANGED progvars

\* cur.reverse() on a forward graph that filter_nodes returned
ReverseFiltered ==
    /\ tree # None
    /\ IsGraph(cur)
    /\ hist = <<"filter_nodes">>
    /\ cur.cls = "PackageDAG"
    /\ cur' = PackageDAG_reverse(cur, nextid)
    /\ src' = cur
    /\ last' = [op |-> "reverse"]
    /\ hist' = Append(hist, "reverse")
    /\ nextid' = Allocated(cur', nextid)
    /\ UNCHANGED <<pkgs, tree, raw, norm>>
    /\ UNCHANGED restvars
    /\ UNCHANGED progvars

\* warning_printer.warning_type = t
SetWarningType ==
    /\ Len(wlog) < MaxOps
    /\ \E t \in WarningType :
          /\ warning_printer' = set_warning_type(warning_printer, t)
          /\ wlog' = Append(wlog, [op |-> "warning_type", type |-> t])
    /\ UNCHANGED <<pkgs, tree, src, cur, last, hist, nextid, raw, norm>>
    /\ UNCHANGED restvars
    /\ UNCHANGED <<run, trav, mem>>

\* warning_printer.print_single_line(line)
PrintSingleLine ==
    /\ Len(wlog) < MaxOps
    /\ warning_printer' = print_single_line(warning_printer, "line")
    /\ wlog' = Append(wlog, [op |-> "print_single_line"])
    /\ UNCHANGED <<pkgs, tree, src, cur, last, hist, nextid, raw, norm>>
    /\ UNCHANGED restvars
    /\ UNCHANGED <<run, trav, mem>>

\* warning_printer.print_multi_line(summary, print_func, ignore_fail)
PrintMultiLine ==
    /\ Len(wlog) < MaxOps
    /\ \E ignore_fail \in BOOLEAN :
          /\ warning_printer' =
                print_multi_line(warning_printer, "summary", <<"body">>, ignore_fail)
          /\ wlog' = Append(wlog, [op |-> "print_multi_line", ignore_fail |-> ignore_fail])
    /\ UNCHANGED <<pkgs, tree, src, cur, last, hist, nextid, raw, norm>>
    /\ UNCHANGED restvars
    /\ UNCHANGED <<run, trav, mem>>

\* main: options = get_options(args)
MainGetOptions ==
    /\ run = None
    /\ wlog = <<>>
    /\ \E options \in OptionsSet :
          run' = [pc |-> "warning_type", options |-> options,
                  warn_given |-> options.warn,
                  steps |-> <<"get_options">>, result |-> None]
    /\ UNCHANGED <<pkgs, tree, src, cur, last, hist, nextid, raw, norm>>
    /\ UNCHANGED restvars
    /\ UNCHANGED <<warning_printer, wlog, trav, mem>>

\* main: the output kind decides options.warn, which the shared printer gets
\* as its warning type
MainSetWarningType ==
    /\ run # None
    /\ run.pc = "warning_type"
    /\ warning_printer' = set_warning_type(warning_printer, WarnOption(run.options))
    /\ wlog' = Append(wlog, [op |-> "warning_type", type |-> WarnOption(run.options)])
    /\ run' = [run EXCEPT !.pc = "get_installed_distributions",
                          !.options.warn = WarnOption(run.options),
                          !.steps = Append(@, "warning_type")]
    /\ UNCHANGED <<pkgs, tree, src, cur, last, hist, nextid, raw, norm>>
    /\ UNCHANGED restvars
    /\ UNCHANGED <<trav, mem>>

\* main: pkgs = get_installed_distributions(interpreter=..., supplied_paths=...,
\* local_only=..., user_only=...); the function of _discovery.py has no
\* parameters interpreter and supplied_paths, the call raises TypeError and
\* main ends with it: no run gets to from_pkgs and the statements after it
MainDiscover ==
    /\ run # None
    /\ run.pc = "get_installed_distributions"
    /\ run' = IF CallBinds(get_installed_distributions_params, MainDiscoveryKeywords)
              THEN [run EXCEPT !.pc = "from_pkgs",
                               !.steps = Append(@, "get_installed_distributions")]
              ELSE [run EXCEPT !.pc = "done",
                               !.steps = Append(@, "get_installed_distributions"),
                               !.result = [raised |-> "TypeError"]]
    /\ UNCHANGED <<pkgs, tree, src, cur, last, hist, nextid, raw, norm>>
    /\ UNCHANGED restvars
    /\ UNCHANGED <<warning_printer, wlog, trav, mem>>

\* the most entries the stack of filter_nodes is followed with
StackCap(g) == SumLen([i \in DOMAIN g.obj |-> g.obj[i].v], 1) + 1

\* cur.filter_nodes(include, exclude) is called: the statements before the loop
FilterCall ==
    /\ tree # None
    /\ trav = None
    /\ last.op = "from_pkgs"
    /\ \E include \in TravIncludes, exclude \in TravExcludes :
          LET inc == IF Truthy(include) THEN SetArg(LowerAll(include.elems)) ELSE include
              exc == IF Truthy(exclude) THEN LowerAll(exclude.elems) ELSE {}
              st == [include |-> inc, exclude |-> exc, i |-> 1,
                     stack |-> <<>>, m |-> <<>>, seen |-> {}]
          IN /\ last' = [op |-> "filter_nodes", include |-> include, exclude |-> exclude]
             /\ IF ShortCircuit(include, exclude)
                THEN /\ trav' = [pc |-> "done"] @@ st
                     /\ cur' = cur
                ELSE IF Truthy(inc) /\ exc # {} /\ inc.elems \cap exc # {}
                THEN /\ trav' = [pc |-> "done"] @@ st
                     /\ cur' = [cls |-> "AssertionError"]
                ELSE /\ trav' = [pc |-> "for"] @@ st
                     /\ cur' = cur
    /\ src' = cur
    /\ hist' = Append(hist, "filter_nodes")
    /\ UNCHANGED <<pkgs, tree, nextid, raw, norm>>
    /\ UNCHANGED restvars
    /\ UNCHANGED <<warning_printer, wlog, run, mem>>

\* filter_nodes: "for node in self._obj" takes the next node, up to "while stack"
ForStep ==
    /\ trav # None
    /\ trav.pc = "for"
    /\ trav.i <= Len(src.obj)
    /\ LET node == src.obj[trav.i].k
       IN trav' = IF IsExcluded(node, trav.exclude)
                  THEN [trav EXCEPT !.i = @ + 1]
                  ELSE IF IsSeed(node, trav.include)
                  THEN [trav EXCEPT !.pc = "while", !.stack = Append(@, node)]
                  ELSE [trav EXCEPT !.pc = "while"]
    /\ UNCHANGED <<pkgs, tree, src, cur, last, hist, nextid, raw, norm>>
    /\ UNCHANGED restvars
    /\ UNCHANGED <<warning_printer, wlog, run, mem>>

\* filter_nodes: "while stack" is tested and, the stack holding a node, its
\* body runs once; with an empty stack the for loop goes on
WhileStep ==
    /\ trav # None
    /\ trav.pc = "while"
    /\ Len(trav.stack) <= StackCap(src)
    /\ trav' = IF trav.stack = <<>>
               THEN [trav EXCEPT !.pc = "for", !.i = @ + 1]
               ELSE LET st == WhileBody(src, trav.exclude,
                                        [stack |-> trav.stack, m |-> trav.m,
                                         seen |-> trav.seen])
                    IN [trav EXCEPT !.stack = st.stack, !.m = st.m, !.seen = st.seen]
    /\ UNCHANGED <<pkgs, tree, src, cur, last, hist, nextid, raw, norm>>
    /\ UNCHANGED restvars
    /\ UNCHANGED <<warning_printer, wlog, run, mem>>

\* filter_nodes: the for loop is over, "return self.__class__(m)"
FilterReturn ==
    /\ trav # None
    /\ trav.pc = "for"
    /\ trav.i > Len(src.obj)
    /\ trav' = [trav EXCEPT !.pc = "done"]
    /\ cur' = PackageDAG_init(src.cls, trav.m, nextid)
    /\ nextid' = nextid + 1
    /\ UNCHANGED <<pkgs, tree, src, last, hist, raw, norm>>
    /\ UNCHANGED restvars
    /\ UNCHANGED <<warning_printer, wlog, run, mem>>

\* tree = PackageDAG.from_pkgs(pkgs), its dict and lists placed in memory
MemFromPkgs ==
    /\ tree = None
    /\ mem = None
    /\ \E ps \in CycPkgLists(MaxPkgs) :
          /\ pkgs' = ps
          /\ tree' = from_pkgs(ps, nextid)
          /\ cur' = from_pkgs(ps, nextid)
          /\ mem' = [heap |-> Mem_from_pkgs(ps, nextid).heap,
                     src |-> None,
                     cur |-> Mem_from_pkgs(ps, nextid).graph,
                     base |-> 0]
    /\ environ' = [dists |-> {}, modules |-> {}]
    /\ src' = None
    /\ last' = [op |-> "from_pkgs"]
    /\ hist' = <<>>
    /\ nextid' = nextid + 1
    /\ UNCHANGED <<raw, norm>>
    /\ UNCHANGED <<orig, inst, decl, reqd, conflicts, cycles>>
    /\ UNCHANGED <<warning_printer, wlog, run, trav>>

\* an operation may be applied to the graph in memory: the one from_pkgs
\* built or its reversal
MemCanOperate == mem # None /\ IsGraph(mem.cur) /\ hist \in {<<>>, <<"reverse">>}

\* the memory after an operation on mem.cur that returned r = [heap, graph]
MemAfter(r) ==
    [heap |-> r.heap, src |-> mem.cur, cur |-> r.graph, base |-> Len(mem.heap)]

\* mem.cur.reverse() on a PackageDAG
MemReverse ==
    /\ MemCanOperate
    /\ mem.cur.cls = "PackageDAG"
    /\ mem' = MemAfter(Mem_PackageDAG_reverse(mem.heap, mem.cur, nextid))
    /\ cur' = PackageDAG_reverse(cur, nextid)
    /\ src' = cur
    /\ last' = [op |-> "reverse"]
    /\ hist' = Append(hist, "reverse")
    /\ nextid' = Allocated(cur', nextid)
    /\ UNCHANGED <<pkgs, tree, raw, norm>>
    /\ UNCHANGED restvars
    /\ UNCHANGED <<warning_printer, wlog, run, trav>>

\* mem.cur.reverse() on a ReversedPackageDAG
MemReverseReversed ==
    /\ MemCanOperate
    /\ mem.cur.cls = "ReversedPackageDAG"
    /\ mem' = MemAfter(Mem_ReversedPackageDAG_reverse(mem.heap, mem.cur, nextid))
    /\ cur' = ReversedPackageDAG_reverse(cur, nextid)
    /\ src' = cur
    /\ last' = [op |-> "reverse"]
    /\ hist' = Append(hist, "reverse")
    /\ nextid' = Allocated(cur', nextid)
    /\ UNCHANGED <<pkgs, tree, raw, norm>>
    /\ UNCHANGED restvars
    /\ UNCHANGED <<warning_printer, wlog, run, trav>>

\* mem.cur.filter_nodes(include, exclude)
MemFilterNodes ==
    /\ MemCanOperate
    /\ \E include \in TravIncludes, exclude \in TravExcludes :
          /\ mem' = MemAfter(Mem_filter_nodes(mem.heap, mem.cur, include, exclude, nextid))
          /\ cur' = filter_nodes(cur, include, exclude, nextid)
          /\ last' = [op |-> "filter_nodes", include |-> include, exclude |-> exclude]
    /\ src' = cur
    /\ hist' = Append(hist, "filter_nodes")
    /\ nextid' = Allocated(cur', nextid)
    /\ UNCHANGED <<pkgs, tree, raw, norm>>
    /\ UNCHANGED restvars
    /\ UNCHANGED <<warning_printer, wlog, run, trav>>

\* mem.cur.sort()
MemSort ==
    /\ MemCanOperate
    /\ mem' = MemAfter(Mem_sort(mem.heap, mem.cur, nextid))
    /\ cur' = sort(cur, nextid)
    /\ src' = cur
    /\ last' = [op |-> "sort"]
    /\ hist' = Append(hist, "sort")
    /\ nextid' = Allocated(cur', nextid)
    /\ UNCHANGED <<pkgs, tree, raw, norm>>
    /\ UNCHANGED restvars
    /\ UNCHANGED <<warning_printer, wlog, run, trav>>

\* conflicting_deps(mem.cur): it reads the graph and writes to no object of it
MemConflictingDeps ==
    /\ MemCanOperate
    /\ mem.cur.cls = "PackageDAG"
    /\ conflicts' = [of |-> conflicting_deps(Deref(mem.heap, mem.cur), environ)]
    /\ mem' = MemAfter([heap |-> mem.heap, graph |-> mem.cur])
    /\ src' = cur
    /\ last' = [op |-> "conflicting_deps"]
    /\ hist' = Append(hist, "conflicting_deps")
    /\ UNCHANGED <<pkgs, tree, cur, nextid, raw, norm>>
    /\ UNCHANGED <<orig, inst, decl, reqd, environ, cycles>>
    /\ UNCHANGED <<warning_printer, wlog, run, trav>>

\* cyclic_deps(mem.cur): it reads the graph and writes to no object of it
MemCyclicDeps ==
    /\ MemCanOperate
    /\ mem.cur.cls = "PackageDAG"
    /\ cycles' = [of |-> cyclic_deps(Deref(mem.heap, mem.cur))]
    /\ mem' = MemAfter([heap |-> mem.heap, graph |-> mem.cur])
    /\ src' = cur
    /\ last' = [op |-> "cyclic_deps"]
    /\ hist' = Append(hist, "cyclic_deps")
    /\ UNCHANGED <<pkgs, tree, cur, nextid, raw, norm>>
    /\ UNCHANGED <<orig, inst, decl, reqd, environ, conflicts>>
    /\ UNCHANGED <<warning_printer, wlog, run, trav>>

NextNorm == PickName \/ Normalize

NextCyc == FromPkgsCyc \/ CyclicDeps

NextSort == FromPkgs \/ Reverse \/ ReverseReversed \/ Sort

NextRev == FromPkgsVal \/ Reverse \/ ReverseReversed

NextFR == FromPkgs \/ Reverse \/ FilterNodes \/ ReverseFiltered

NextWarn == SetWarningType \/ PrintSingleLine \/ PrintMultiLine

NextMain == MainGetOptions \/ MainSetWarningType \/ MainDiscover

NextTrav == FromPkgsCyc \/ FilterCall \/ ForStep \/ WhileStep \/ FilterReturn

NextMem ==
    \/ MemFromPkgs
    \/ MemReverse
    \/ MemReverseReversed
    \/ MemFilterNodes
    \/ MemSort
    \/ MemConflictingDeps
    \/ MemCyclicDeps

NextVal == FromPkgsVal \/ ConflictingDeps \/ CyclicDeps

NextReq == Declare \/ Requires \/ FromDeclared

NextDisc == Distributions \/ GetInstalledDistributions

NextDup == FromPkgsDup \/ Reverse \/ ReverseReversed

SpecNorm == Init /\ [][NextNorm]_vars

SpecDup == Init /\ [][NextDup]_vars

SpecDisc == Init /\ [][NextDisc]_vars

SpecReq == Init /\ [][NextReq]_vars

SpecCyc == Init /\ [][NextCyc]_vars

SpecSort == Init /\ [][NextSort]_vars

SpecRev == Init /\ [][NextRev]_vars

SpecFR == Init /\ [][NextFR]_vars

SpecWarn == Init /\ [][NextWarn]_vars

SpecMain == Init /\ [][NextMain]_vars

SpecTrav == Init /\ [][NextTrav]_vars

\* a call of filter_nodes keeps executing its statements
SpecTravLive ==
    SpecTrav /\ WF_vars(ForStep) /\ WF_vars(WhileStep) /\ WF_vars(FilterReturn)

SpecMem == Init /\ [][NextMem]_vars

SpecVal == Init /\ [][NextVal]_vars

(***************************************************************************)
(* Properties                                                              *)
(***************************************************************************)
NodeKeys(g) == {g.obj[i].k.key : i \in DOMAIN g.obj}

Nodes(g) == {g.obj[i].k : i \in DOMAIN g.obj}

\* the keys of the children listed under the node with key K
ChildKeysOf(g, K) ==
    UNION {{g.obj[i].v[j].key : j \in DOMAIN g.obj[i].v} :
              i \in {n \in DOMAIN g.obj : g.obj[n].k.key = K}}

\* the mapping from node key to set of child keys
KeyStructure(g) == {<<K, ChildKeysOf(g, K)>> : K \in NodeKeys(g)}

UniqueKeys(g) ==
    \A i, j \in DOMAIN g.obj : g.obj[i].k.key = g.obj[j].k.key => i = j

\* how many elements of the sequence of nodes vs have key K
CountKey(vs, K) == Cardinality({j \in DOMAIN vs : vs[j].key = K})

Filtered == last.op = "filter_nodes"

Reversed(cls) == last.op = "reverse" /\ src.cls = cls

\* C1: for any graph G built by from_pkgs, also one with requirements whose
\* target is not installed, G.reverse().reverse() completes and has the same
\* mapping from node key to set of child keys as G.
C1_ReverseTwiceRestores ==
    hist = <<"reverse", "reverse">> =>
        IsGraph(cur) /\ KeyStructure(cur) = KeyStructure(tree)

\* C2: PackageDAG.reverse() returns the transpose: exactly one entry per key
\* that is a forward node or the target of a requirement, under the entry for
\* K exactly the forward parents requiring K, one per forward edge, and every
\* forward node nobody depends on is a key mapped to an empty list.
C2_ReverseIsTranspose ==
    Reversed("PackageDAG") =>
        /\ cur.cls = "ReversedPackageDAG"
        /\ UniqueKeys(cur)
        /\ NodeKeys(cur) = NodeKeys(src) \cup child_keys(src.obj)
        /\ \A i \in DOMAIN cur.obj :
              /\ \A j \in DOMAIN cur.obj[i].v : cur.obj[i].v[j].key \in NodeKeys(src)
              /\ \A n \in DOMAIN src.obj :
                    CountKey(cur.obj[i].v, src.obj[n].k.key)
                        = CountKey(src.obj[n].v, cur.obj[i].k.key)
        /\ \A n \in DOMAIN src.obj :
              src.obj[n].k.key \notin child_keys(src.obj) =>
                  \E i \in DOMAIN cur.obj :
                      cur.obj[i].k.key = src.obj[n].k.key /\ cur.obj[i].v = <<>>

\* C2 witness: a reversed graph that lists two parents under one key and has
\* a forward root as a key with no parents.
C2_Witness ==
    /\ Reversed("PackageDAG")
    /\ IsGraph(cur)
    /\ \E i \in DOMAIN cur.obj : Len(cur.obj[i].v) >= 2
    /\ \E i \in DOMAIN cur.obj :
          cur.obj[i].v = <<>> /\ cur.obj[i].k.key \in NodeKeys(src)

\* the patterns of a filter argument as filter_nodes compares them
PatsOf(arg) == IF arg = None THEN {} ELSE {lower(p) : p \in arg.elems}

Matches(key, arg) == \E p \in PatsOf(arg) : fnmatch(key, p)

\* the node keys reachable from the keys S along child edges to targets that
\* match no exclude pattern and have a node of their own
RECURSIVE Closure(_, _, _)
Closure(g, S, exclude) ==
    LET T == S \cup {K \in NodeKeys(g) :
                       /\ ~Matches(K, exclude)
                       /\ \E P \in S : K \in ChildKeysOf(g, P)}
    IN IF T = S THEN S ELSE Closure(g, T, exclude)

Seeds(g, include, exclude) ==
    {K \in NodeKeys(g) : Matches(K, include) /\ ~Matches(K, exclude)}

\* C3: with a non-null include the result's keys are exactly the source nodes
\* reachable, along child edges to targets matching no exclude pattern, from
\* the nodes that match an include and no exclude pattern; a kept child
\* without a node of its own stays in the child list, is not a key.
C3_IncludeClosure ==
    (Filtered /\ last.include # None /\ IsGraph(cur)) =>
        /\ Nodes(cur) \subseteq Nodes(src)
        /\ NodeKeys(cur) = Closure(src, Seeds(src, last.include, last.exclude), last.exclude)
        /\ \A i \in DOMAIN cur.obj :
              LET sv == DictGet(src.obj, cur.obj[i].k)
              IN \A j \in DOMAIN sv :
                    (~Matches(sv[j].key, last.exclude) /\ sv[j].key \notin NodeKeys(src)) =>
                        /\ \E n \in DOMAIN cur.obj[i].v : cur.obj[i].v[n] = sv[j]
                        /\ sv[j].key \notin NodeKeys(cur)

\* C3 witness: an include filter kept a node that matches no include pattern
\* (reached through a child edge) and a child that has no node of its own.
C3_Witness ==
    /\ Filtered /\ last.include # None /\ IsGraph(cur)
    /\ \E K \in NodeKeys(cur) : ~Matches(K, last.include)
    /\ \E i \in DOMAIN cur.obj : \E j \in DOMAIN cur.obj[i].v :
          cur.obj[i].v[j].key \notin NodeKeys(src)

\* C4: filter_nodes(None, exclude) with a non-empty exclude keeps as keys
\* exactly the source nodes matching no exclude pattern, roots or not, and no
\* node matching an exclude pattern is left as a key or in a child list.
C4_ExcludeOnly ==
    (Filtered /\ last.include = None /\ Truthy(last.exclude)) =>
        /\ IsGraph(cur)
        /\ NodeKeys(cur) = {K \in NodeKeys(src) : ~Matches(K, last.exclude)}
        /\ \A i \in DOMAIN cur.obj :
              /\ ~Matches(cur.obj[i].k.key, last.exclude)
              /\ \A j \in DOMAIN cur.obj[i].v : ~Matches(cur.obj[i].v[j].key, last.exclude)

\* C4 witness: an exclude-only filter dropped a node and kept, as a key, a
\* node that is the child of another kept node.
C4_Witness ==
    /\ Filtered /\ last.include = None /\ Truthy(last.exclude) /\ IsGraph(cur)
    /\ NodeKeys(cur) # NodeKeys(src)
    /\ \E i, n \in DOMAIN cur.obj :
          i # n /\ \E j \in DOMAIN cur.obj[i].v : cur.obj[i].v[j].key = cur.obj[n].k.key

\* C5: filter_nodes with a non-null include whose patterns match no node of
\* the graph fails with the ValueError "No packages matched using the
\* following patterns", instead of returning a graph.
C5_NoMatchFails ==
    (/\ Filtered /\ Truthy(last.include)
     /\ \A K \in NodeKeys(src) : ~Matches(K, last.include)
     /\ PatsOf(last.include) \cap PatsOf(last.exclude) = {}) =>
        cur.cls = "ValueError"

\* two patterns that differ at most in letter case
SameButCase(p, q) ==
    Len(p) = Len(q) /\ \A i \in 1..Len(p) : LowerChar(p[i]) = LowerChar(q[i])

\* C6: filter_nodes fails, returning no graph, whenever include and exclude
\* share a pattern, patterns differing only in letter case being the same.
C6_OverlapFails ==
    (/\ Filtered /\ last.include # None /\ last.exclude # None
     /\ \E p \in last.include.elems, q \in last.exclude.elems : SameButCase(p, q)) =>
        cur.cls = "AssertionError"

\* C6 witness: the filter failed on an include and an exclude pattern that
\* are written differently.
C6_Witness ==
    /\ Filtered /\ last.include # None /\ last.exclude # None
    /\ cur.cls = "AssertionError"
    /\ last.include.elems \cap last.exclude.elems = {}

\* C7: filter_nodes(None, None) returns the very graph instance it was called
\* on and allocates no new graph.
C7_FilterIdentity ==
    (Filtered /\ last.include = None /\ last.exclude = None) =>
        cur = src /\ cur.id = src.id /\ nextid = src.id + 1

\* C7 witness: filter_nodes(None, None) ran on a graph that has edges.
C7_Witness ==
    /\ Filtered /\ last.include = None /\ last.exclude = None
    /\ \E i \in DOMAIN src.obj : src.obj[i].v # <<>>

IsLiteral(p) == \A i \in 1..Len(p) : p[i] \notin {"*", "?", "["}

\* C8: a pattern that is a package's raw name, so that it normalises to the
\* node's key, selects that node when included and removes it when excluded.
C8_PatternsNormalized ==
    Filtered =>
        \A n \in Nodes(src) :
            /\ (/\ last.include # None /\ last.exclude = None
                /\ \E p \in last.include.elems :
                      IsLiteral(p) /\ util_pep503_normalize(p) = n.key)
               => (IsGraph(cur) /\ n.key \in NodeKeys(cur))
            /\ (/\ last.include = None /\ last.exclude # None
                /\ \E p \in last.exclude.elems :
                      IsLiteral(p) /\ util_pep503_normalize(p) = n.key)
               => (IsGraph(cur) /\ n.key \notin NodeKeys(cur))

\* the positions of vs whose node matches no exclude pattern, in order
RECURSIVE KeptPositions(_, _, _)
KeptPositions(vs, exclude, j) ==
    IF j > Len(vs) THEN <<>>
    ELSE (IF Matches(vs[j].key, exclude) THEN <<>> ELSE <<j>>)
             \o KeptPositions(vs, exclude, j + 1)

\* C9: in the graph filter_nodes returns, every retained node's child list is
\* its source child list without the children matching an exclude pattern,
\* the others in their original relative order.
C9_ChildOrderKept ==
    (Filtered /\ IsGraph(cur)) =>
        \A i \in DOMAIN cur.obj :
            LET sv == DictGet(src.obj, cur.obj[i].k)
                kept == KeptPositions(sv, last.exclude, 1)
            IN /\ Len(cur.obj[i].v) = Len(kept)
               /\ \A j \in DOMAIN kept : cur.obj[i].v[j] = sv[kept[j]]

\* C9 witness: a retained node lost a child to an exclude pattern and kept
\* another one.
C9_Witness ==
    /\ Filtered /\ IsGraph(cur) /\ Truthy(last.exclude)
    /\ \E i \in DOMAIN cur.obj :
          LET sv == DictGet(src.obj, cur.obj[i].k)
          IN cur.obj[i].v # <<>> /\ Len(cur.obj[i].v) < Len(sv)

\* C10: key normalisation is idempotent and maps names that differ only in
\* letter case or in runs of ".", "_" and "-" to the same key; every
\* Package's key is computed with it.
C10_NormalizeCanonical ==
    norm # None =>
        /\ norm.again = norm.key
        /\ norm.ofDashed = norm.key
        /\ norm.ofLower = norm.key

FirstOfKey(ps, K) ==
    DistPackage(ps[CHOOSE i \in DOMAIN ps :
                      /\ ps[i].key = K
                      /\ \A j \in DOMAIN ps : ps[j].key = K => i <= j])

\* C12: from_pkgs on a list that holds a key more than once builds a graph
\* in which the first distribution of that key wins: every requirement
\* targeting the key resolves to it and get_node_as_parent returns it.
C12_FirstDuplicateWins ==
    tree # None =>
        /\ IsGraph(tree)
        /\ \A n \in DOMAIN pkgs :
              LET K == pkgs[n].key
              IN /\ get_node_as_parent(tree, K) = FirstOfKey(pkgs, K)
                 /\ \A i \in DOMAIN tree.obj : \A j \in DOMAIN tree.obj[i].v :
                       tree.obj[i].v[j].key = K =>
                           tree.obj[i].v[j].dist = FirstOfKey(pkgs, K)

\* the PEP 503 name of the distribution at position p of the discovered list
NameAt(p) == util_pep503_normalize(orig.dists[p].name)

\* p is the first position of the discovered list with its normalized name
IsFirstSeen(p) == \A q \in 1..(p - 1) : NameAt(q) # NameAt(p)

\* the first position that has the normalized name of position p
FirstSeenOf(p) ==
    CHOOSE q \in DOMAIN orig.dists : NameAt(q) = NameAt(p) /\ IsFirstSeen(q)

\* the distributions of the discovered list that are first of their name, in order
RECURSIVE FirstSeenFrom(_)
FirstSeenFrom(p) ==
    IF p > Len(orig.dists) THEN <<>>
    ELSE (IF IsFirstSeen(p) THEN <<orig.dists[p]>> ELSE <<>>) \o FirstSeenFrom(p + 1)

DuplicateLines == {n \in DOMAIN inst.err : inst.err[n].what = "duplicate"}

\* C13: get_installed_distributions returns, in the order met, exactly the
\* distributions that are the first of their normalized name, so at most one
\* per name; every later distribution of a name already seen is printed in
\* the duplicate-metadata warning, on a line of its own that names the
\* first-seen distribution in use; without duplicates nothing is printed.
C13_FirstSeenKept ==
    inst # None =>
        /\ inst.dists = FirstSeenFrom(1)
        /\ \A i, j \in DOMAIN inst.dists :
              i # j => util_pep503_normalize(inst.dists[i].name)
                           # util_pep503_normalize(inst.dists[j].name)
        /\ \A p \in DOMAIN orig.dists :
              ~IsFirstSeen(p) =>
                  \E n \in DuplicateLines :
                      /\ inst.err[n].name = orig.dists[p].name
                      /\ inst.err[n].version = orig.dists[p].version
                      /\ inst.err[n].entry = orig.dists[p].path
                      /\ inst.err[n].using = orig.dists[FirstSeenOf(p)].version
                      /\ inst.err[n].at = orig.dists[FirstSeenOf(p)].path
        /\ Cardinality(DuplicateLines)
               = Cardinality({p \in DOMAIN orig.dists : ~IsFirstSeen(p)})
        /\ (\A p \in DOMAIN orig.dists : IsFirstSeen(p)) => inst.err = <<>>

\* C13 witness: discovery met a name a second time, written differently, and
\* a new name after it, so that it dropped one distribution and kept a later one.
C13_Witness ==
    /\ inst # None
    /\ \E p, q \in DOMAIN orig.dists :
          /\ p < q
          /\ ~IsFirstSeen(p)
          /\ orig.dists[p].name # orig.dists[FirstSeenOf(p)].name
          /\ IsFirstSeen(q)

\* a requirement string that packaging cannot parse
Malformed(r) == Requirement(r).cls = "InvalidRequirement"

\* the strings of rs that parse, in order
WellFormed(rs) == SelectSeq(rs, LAMBDA r : ~Malformed(r))

\* C14: a requirement string that cannot be parsed does not abort from_pkgs:
\* the graph has a node for every input distribution, the child list of a
\* distribution is what its well-formed strings yield, and stderr names the
\* distribution whose string was skipped.
C14_MalformedSkipped ==
    (decl # None /\ tree # None
     /\ \E i \in DOMAIN decl.dists : \E j \in DOMAIN decl.dists[i].requires :
           Malformed(decl.dists[i].requires[j])) =>
        /\ IsGraph(tree)
        /\ Len(tree.obj) = Len(decl.dists)
        /\ \A i \in DOMAIN decl.dists :
              /\ tree.obj[i].k.key = decl.dists[i].key
              /\ LET kept == requires([decl.dists[i] EXCEPT
                                          !.requires = WellFormed(@)]).items
                 IN /\ Len(tree.obj[i].v) = Len(kept)
                    /\ \A j \in DOMAIN kept :
                          tree.obj[i].v[j].key = Package(kept[j].name).key
              /\ (\E j \in DOMAIN decl.dists[i].requires :
                     Malformed(decl.dists[i].requires[j]))
                 => \E n \in DOMAIN last.err : last.err[n].name = decl.dists[i].key

\* whether a marker holds on the running platform (linux, no extra requested)
MarkerHolds(marker) ==
    marker = NoMarker \/ (marker[1] = "sys_platform" /\ marker[3] = "linux")

\* C15: DistPackage.requires returns no requirement whose environment marker
\* evaluates to false on the current platform.
C15_FalseMarkersOmitted ==
    reqd # None =>
        \A i \in DOMAIN reqd.of :
            reqd.of[i].cls = "list" =>
                \A j \in DOMAIN reqd.of[i].items : MarkerHolds(reqd.of[i].items[j].marker)

\* the key of the requirement a declared string names
DeclKey(r) == Package(r.name).key

\* the strings of rs that are not conditioned on an extra and are the first
\* such string of rs for their key, in order
RECURSIVE FirstPerKey(_, _)
FirstPerKey(rs, p) ==
    IF p > Len(rs) THEN <<>>
    ELSE (IF /\ ~contains_extra(rs[p].marker)
             /\ \A q \in 1..(p - 1) :
                   contains_extra(rs[q].marker) \/ DeclKey(rs[q]) # DeclKey(rs[p])
          THEN <<rs[p]>> ELSE <<>>) \o FirstPerKey(rs, p + 1)

\* C16: DistPackage.requires returns the declared requirements in declaration
\* order, without those conditioned on an extra and with only the first
\* requirement per target key, names that normalize to one key being one key.
C16_FirstPerKeyInOrder ==
    reqd # None =>
        \A i \in DOMAIN reqd.of :
            reqd.of[i].cls = "list" =>
                LET want == FirstPerKey(decl.dists[i].requires, 1)
                    got == reqd.of[i].items
                IN /\ Len(got) = Len(want)
                   /\ \A j \in DOMAIN want :
                         /\ got[j].name = want[j].name
                         /\ got[j].specifier = want[j].specs
                         /\ got[j].marker = want[j].marker

\* the requirement req is listed under the distribution package in conflicts
Reported(package, req) ==
    \E n \in DOMAIN conflicts.of :
        /\ conflicts.of[n].k = package
        /\ \E j \in DOMAIN conflicts.of[n].v : conflicts.of[n].v[j] = req

\* the running environment has no version to offer for key
NotInEnvironment(key) ==
    /\ \A d \in environ.dists : d.key # key
    /\ \A m \in environ.modules : m.key # key

C18_NoSpecNeverConflicts ==
    conflicts # None =>
        \A i \in DOMAIN tree.obj : \A j \in DOMAIN tree.obj[i].v :
            LET r == tree.obj[i].v[j]
            IN r.specs = NoSpec =>
                   ~is_conflicting(r, environ) /\ ~Reported(tree.obj[i].k, r)

\* C18 amended: a requirement without version specifier is reported as
\* conflicting, by is_conflicting and by conflicting_deps, exactly when its
\* installed version is unknown ("?"); with a known installed version it is
\* never reported.
C18_NoSpecConflictsIffUnknown ==
    conflicts # None =>
        \A i \in DOMAIN tree.obj : \A j \in DOMAIN tree.obj[i].v :
            LET r == tree.obj[i].v[j]
                unknown == installed_version(r, environ) = UNKNOWN_VERSION
            IN r.specs = NoSpec =>
                   /\ is_conflicting(r, environ) <=> unknown
                   /\ Reported(tree.obj[i].k, r) <=> unknown

\* C18 witness: conflicting_deps ran on a graph with a requirement without
\* specifier that is resolved and one without specifier whose version is unknown.
C18_Witness ==
    /\ conflicts # None
    /\ \E i, n \in DOMAIN tree.obj :
          /\ \E j \in DOMAIN tree.obj[i].v :
                tree.obj[i].v[j].specs = NoSpec /\ tree.obj[i].v[j].dist # None
          /\ \E j \in DOMAIN tree.obj[n].v :
                /\ tree.obj[n].v[j].specs = NoSpec
                /\ installed_version(tree.obj[n].v[j], environ) = UNKNOWN_VERSION

\* a requirement whose installed version is unknown or outside its specifier
Unsatisfied(r) ==
    LET v == installed_version(r, environ)
    IN v = UNKNOWN_VERSION
       \/ \E n \in DOMAIN r.specs :
             \/ r.specs[n].op = ">=" /\ v < r.specs[n].ver
             \/ r.specs[n].op = "<" /\ v >= r.specs[n].ver
             \/ r.specs[n].op = "==" /\ v # r.specs[n].ver

\* C19: the keys of what conflicting_deps returns are exactly the
\* distributions with at least one conflicting requirement, each once and
\* none with an empty list, and each is mapped to its conflicting
\* requirements in the order they were declared.
C19_ConflictsGrouped ==
    conflicts # None =>
        /\ {conflicts.of[n].k : n \in DOMAIN conflicts.of}
               = {tree.obj[i].k : i \in {m \in DOMAIN tree.obj :
                                            \E j \in DOMAIN tree.obj[m].v :
                                                Unsatisfied(tree.obj[m].v[j])}}
        /\ \A n, m \in DOMAIN conflicts.of :
              conflicts.of[n].k = conflicts.of[m].k => n = m
        /\ \A n \in DOMAIN conflicts.of :
              /\ conflicts.of[n].v # <<>>
              /\ conflicts.of[n].v
                     = SelectSeq(DictGet(tree.obj, conflicts.of[n].k), Unsatisfied)

\* C19 witness: conflicting_deps listed two requirements under one
\* distribution and left out a distribution whose requirements are satisfied.
C19_Witness ==
    /\ conflicts # None
    /\ \E n \in DOMAIN conflicts.of : Len(conflicts.of[n].v) >= 2
    /\ \E i \in DOMAIN tree.obj :
          /\ tree.obj[i].v # <<>>
          /\ \A n \in DOMAIN conflicts.of : conflicts.of[n].k # tree.obj[i].k

\* the keys of a reported cycle
CycleKeys(c) == [x \in DOMAIN c |-> c[x].key]

\* the node with key P lists a requirement with key Q
HasEdge(P, Q) ==
    \E i \in DOMAIN tree.obj :
        tree.obj[i].k.key = P /\ \E j \in DOMAIN tree.obj[i].v : tree.obj[i].v[j].key = Q

\* C20: when two installed packages A and B require each other, cyclic_deps
\* reports both rotations of the cycle, [A, B, A] and [B, A, B].
C20_BothRotations ==
    cycles # None =>
        \A A, B \in NodeKeys(tree) :
            (A # B /\ HasEdge(A, B) /\ HasEdge(B, A)) =>
                /\ \E n \in DOMAIN cycles.of : CycleKeys(cycles.of[n]) = <<A, B, A>>
                /\ \E n \in DOMAIN cycles.of : CycleKeys(cycles.of[n]) = <<B, A, B>>

\* C20 witness: cyclic_deps ran on a graph in which a and b require each other.
C20_Witness ==
    /\ cycles # None
    /\ HasEdge(KA, KB)
    /\ HasEdge(KB, KA)

\* C21: cyclic_deps detects cycles of any length: when installed packages A, B
\* and C require each other in a ring A -> B -> C -> A, the full cycle is
\* reported once per rotation, each path listing every package of the ring and
\* ending with the key it started with.
C21_LongCyclesReported ==
    cycles # None =>
        \A A, B, C \in NodeKeys(tree) :
            (A # B /\ B # C /\ A # C /\ HasEdge(A, B) /\ HasEdge(B, C) /\ HasEdge(C, A)) =>
                /\ \E n \in DOMAIN cycles.of : CycleKeys(cycles.of[n]) = <<A, B, C, A>>
                /\ \E n \in DOMAIN cycles.of : CycleKeys(cycles.of[n]) = <<B, C, A, B>>
                /\ \E n \in DOMAIN cycles.of : CycleKeys(cycles.of[n]) = <<C, A, B, C>>

\* the keys of the installed packages that the node with key K requires
InstalledSucc(K) == {Q \in NodeKeys(tree) : HasEdge(K, Q)}

\* the keys reached from the set S in one to n steps along installed edges
RECURSIVE ReachedIn(_, _)
ReachedIn(S, n) ==
    IF n = 0 THEN {}
    ELSE LET one == UNION {InstalledSucc(K) : K \in S}
         IN one \cup ReachedIn(one, n - 1)

\* some installed package requires itself through installed packages
HasCycle == \E K \in NodeKeys(tree) : K \in ReachedIn({K}, Cardinality(NodeKeys(tree)))

\* C22: cyclic_deps never reports a spurious cycle: every reported cycle
\* starts and ends with the same key and each consecutive pair of it is an
\* edge between installed packages; the result is empty for a graph without
\* cycles, in particular when requirements point to packages that are not
\* installed.
C22_NoSpuriousCycle ==
    cycles # None =>
        /\ \A n \in DOMAIN cycles.of :
              LET c == CycleKeys(cycles.of[n])
              IN /\ c[1] = c[Len(c)]
                 /\ \A x \in 1..(Len(c) - 1) :
                       /\ c[x] \in NodeKeys(tree)
                       /\ c[x + 1] \in NodeKeys(tree)
                       /\ HasEdge(c[x], c[x + 1])
        /\ ~HasCycle => cycles.of = <<>>

\* C22 witness: cyclic_deps ran on a graph with a cycle, which it reported, and
\* with a requirement on a package that is not installed.
C22_Witness ==
    /\ cycles # None
    /\ cycles.of # <<>>
    /\ \E i \in DOMAIN tree.obj : \E j \in DOMAIN tree.obj[i].v :
          tree.obj[i].v[j].key \notin NodeKeys(tree)

\* cyclic_deps ran on a graph without cycle whose requirements all point to
\* packages that are not installed
C22_OnlyMissingTargets ==
    /\ cycles # None
    /\ ~HasCycle
    /\ \E i \in DOMAIN tree.obj : tree.obj[i].v # <<>>
    /\ \A i \in DOMAIN tree.obj : \A j \in DOMAIN tree.obj[i].v :
          tree.obj[i].v[j].key \notin NodeKeys(tree)

\* the children of the node k of the graph g, as a bag of objects
ChildBag(g, k) ==
    LET v == DictGet(g.obj, k)
    IN [c \in {v[j] : j \in DOMAIN v} |-> Cardinality({j \in DOMAIN v : v[j] = c})]

\* the sequence s of packages is in ascending order of key
Ascending(s) == \A i, j \in DOMAIN s : i < j => ~StrLess(s[j].key, s[i].key)

\* C24: sort() returns a new graph of the same class with the same
\* key-to-children relation, whose keys are in ascending key order and whose
\* child lists are each in ascending child-key order; sorting a sorted graph
\* yields the same ordering.
C24_SortOrders ==
    (last.op = "sort" /\ IsGraph(cur)) =>
        /\ cur.cls = src.cls
        /\ cur.id # src.id
        /\ Len(cur.obj) = Len(src.obj)
        /\ {cur.obj[i].k : i \in DOMAIN cur.obj} = {src.obj[i].k : i \in DOMAIN src.obj}
        /\ \A i \in DOMAIN src.obj :
              ChildBag(cur, src.obj[i].k) = ChildBag(src, src.obj[i].k)
        /\ Ascending([i \in DOMAIN cur.obj |-> cur.obj[i].k])
        /\ \A i \in DOMAIN cur.obj : Ascending(cur.obj[i].v)
        /\ sort(cur, cur.id).obj = cur.obj

\* C24 witness: a graph with keys and a child list out of order was sorted.
C24_Witness ==
    /\ last.op = "sort"
    /\ IsGraph(cur)
    /\ ~Ascending([i \in DOMAIN src.obj |-> src.obj[i].k])
    /\ \E i \in DOMAIN src.obj : ~Ascending(src.obj[i].v)

\* the children that the node with key K has in the graph g
ChildrenOfKey(g, K) ==
    g.obj[CHOOSE i \in DOMAIN g.obj : g.obj[i].k.key = K].v

\* C25: in every graph returned by PackageDAG.reverse(), each distribution
\* listed under a key K carries as its req the requirement that this very
\* distribution declared on K in the forward graph (the key of K and that
\* edge's own version specifier, not another parent's), and the distribution
\* nodes of the forward graph keep req = None.
C25_ReverseCarriesOwnReq ==
    (last.op = "reverse" /\ IsGraph(cur) /\ cur.cls = "ReversedPackageDAG") =>
        /\ \A i \in DOMAIN cur.obj : \A j \in DOMAIN cur.obj[i].v :
              LET K == cur.obj[i].k
                  d == cur.obj[i].v[j]
              IN /\ d.req # None
                 /\ d.req.key = K.key
                 /\ d.key \in NodeKeys(src)
                 /\ d.req = FirstChildWithKey(ChildrenOfKey(src, d.key), K.key)
                 /\ d.req.specs =
                       FirstChildWithKey(ChildrenOfKey(src, d.key), K.key).specs
                 /\ [d EXCEPT !.req = None] \in Nodes(src)
        /\ \A i \in DOMAIN src.obj : src.obj[i].k.req = None

\* C25 witness: reverse() ran on a forward graph in which a and b both
\* require a-b, each with a specifier of its own.
C25_Witness ==
    /\ last.op = "reverse"
    /\ IsGraph(cur)
    /\ cur.cls = "ReversedPackageDAG"
    /\ \E i \in DOMAIN cur.obj :
          /\ cur.obj[i].k.key = KAB
          /\ \E j, n \in DOMAIN cur.obj[i].v :
                /\ cur.obj[i].v[j].key = KA
                /\ cur.obj[i].v[n].key = KB
                /\ cur.obj[i].v[j].req.specs # cur.obj[i].v[n].req.specs

\* the keys of the forward graph tree, nodes and requirements alike
AllKeys == NodeKeys(tree) \cup child_keys(tree.obj)

\* the keys S and, transitively, the installed packages of the forward graph
\* tree that require one of them and match no exclude pattern
RECURSIVE Dependents(_, _)
Dependents(S, exclude) ==
    LET T == S \cup {P \in NodeKeys(tree) :
                       /\ ~Matches(P, exclude)
                       /\ \E Q \in S : HasEdge(P, Q)}
    IN IF T = S THEN S ELSE Dependents(T, exclude)

\* C26: filter_nodes on a reversed graph uses the reversed graph's notion of
\* child: the result is again a ReversedPackageDAG whose keys are exactly the
\* packages matching an include pattern and, transitively, every package that
\* depends on them, minus the excluded ones; reversing an already filtered
\* forward graph only considers the nodes that survived the filter.
C26_FilterOnReversed ==
    /\ (hist = <<"reverse", "filter_nodes">> /\ last.include # None /\ IsGraph(cur)) =>
          /\ cur.cls = "ReversedPackageDAG"
          /\ NodeKeys(cur) =
                Dependents({K \in AllKeys : Matches(K, last.include)
                                            /\ ~Matches(K, last.exclude)},
                           last.exclude)
    /\ (hist = <<"filter_nodes", "reverse">> /\ IsGraph(cur)) =>
          /\ cur.cls = "ReversedPackageDAG"
          /\ NodeKeys(cur) = NodeKeys(src) \cup child_keys(src.obj)
          /\ \A i \in DOMAIN cur.obj : \A j \in DOMAIN cur.obj[i].v :
                /\ [cur.obj[i].v[j] EXCEPT !.req = None] \in Nodes(src)
                /\ cur.obj[i].k.key \in ChildKeysOf(src, cur.obj[i].v[j].key)

\* C26 witness: an include filter on a reversed graph kept a package that
\* matches no include pattern because it depends on one that does.
C26_Witness ==
    /\ hist = <<"reverse", "filter_nodes">>
    /\ last.include # None
    /\ IsGraph(cur)
    /\ \E K \in NodeKeys(cur) :
          /\ ~Matches(K, last.include)
          /\ \E Q \in NodeKeys(cur) : Matches(Q, last.include) /\ HasEdge(K, Q)

\* a filtered forward graph was reversed, and a package that depends on a kept
\* one did not survive the filter and is no parent in the result
C26_FilteredThenReversed ==
    /\ hist = <<"filter_nodes", "reverse">>
    /\ IsGraph(cur)
    /\ \E P \in NodeKeys(tree) \ NodeKeys(src) :
          \E Q \in NodeKeys(cur) : HasEdge(P, Q)

\* the logged operation sets the warned flag: print_single_line, or
\* print_multi_line with ignore_fail=False
IsFailingPrint(e) ==
    \/ e.op = "print_single_line"
    \/ e.op = "print_multi_line" /\ ~e.ignore_fail

\* C27: over any sequence of WarningPrinter operations,
\* has_warned_with_failure() is true exactly when the current warning type is
\* FAIL and at least one print_single_line, or print_multi_line with
\* ignore_fail=False, has been executed; print_multi_line with ignore_fail=True
\* leaves the warned flag unchanged and no operation resets the flag.
C27_WarnedWithFailure ==
    /\ has_warned_with_failure(warning_printer) <=>
          /\ warning_printer.warning_type = [enum |-> "FAIL"]
          /\ \E i \in DOMAIN wlog : IsFailingPrint(wlog[i])
    /\ warning_printer.has_warned <=> \E i \in DOMAIN wlog : IsFailingPrint(wlog[i])

\* C27 witness: a print_multi_line with ignore_fail=True came first, a print
\* that sets the flag second, a further operation followed, and the type is
\* FAIL: the printer has warned with failure.
C27_Witness ==
    /\ warning_printer.warning_type = [enum |-> "FAIL"]
    /\ Len(wlog) >= 3
    /\ wlog[1].op = "print_multi_line" /\ wlog[1].ignore_fail
    /\ IsFailingPrint(wlog[2])
    /\ has_warned_with_failure(warning_printer)

\* main has ended
MainDone == run # None /\ run.pc = "done"

\* main has ended a run for text output that was given --warn w
WarnGiven(w) ==
    MainDone /\ run.warn_given = [str |-> w] /\ is_text_output(run.options)

\* C23: warning control determines the exit code: with 'silence' no warning is
\* shown and main returns 0; with 'suppress' main returns 0 whether or not a
\* warning is present; with 'fail' main returns 1 if a warning (conflict,
\* cycle or filter failure) was shown and 0 otherwise.
C23_WarnDecidesExitCode ==
    MainDone =>
        /\ WarnGiven("silence") =>
              warning_printer.file = <<>> /\ run.result = [returned |-> 0]
        /\ WarnGiven("suppress") => run.result = [returned |-> 0]
        /\ WarnGiven("fail") =>
              run.result = [returned |-> IF warning_printer.file = <<>> THEN 0 ELSE 1]

\* the place of the call named step among the calls main made (0: not made)
StepAt(step) ==
    IF \E i \in DOMAIN run.steps : run.steps[i] = step
    THEN CHOOSE i \in DOMAIN run.steps : run.steps[i] = step
    ELSE 0

\* main called a and then b
InOrder(a, b) == StepAt(a) > 0 /\ StepAt(a) < StepAt(b)

\* C28: in every run of main the graph is built, conflicts and cycles are
\* validated on the full graph before any reversing or filtering, the graph is
\* reversed (if requested) before it is filtered, and rendering comes last; if
\* filtering fails rendering is never invoked and main still returns the exit
\* code derived from the warning printer.
C28_MainStepOrder ==
    MainDone =>
        /\ InOrder("from_pkgs", "validate")
        /\ (StepAt("reverse") > 0) = run.options.reverse
        /\ StepAt("reverse") > 0 => InOrder("validate", "reverse")
        /\ StepAt("filter_nodes") > 0 =>
              /\ InOrder("validate", "filter_nodes")
              /\ StepAt("reverse") > 0 => InOrder("reverse", "filter_nodes")
        /\ StepAt("render") > 0 => StepAt("render") = Len(run.steps)
        /\ (StepAt("render") = 0) = (StepAt("filter_nodes failed") > 0)
        /\ run.result = [returned |-> determine_return_code(warning_printer)]

\* the filter_nodes call has returned or raised
TravDone == trav # None /\ trav.pc = "done"

\* C30: filter_nodes terminates on every finite graph, graphs with cycles and
\* self-dependencies included: every call returns, and whenever the while loop
\* is entered the traversal stack eventually becomes empty.
C30_FilterTerminates ==
    /\ (trav # None) ~> TravDone
    /\ (trav # None /\ trav.pc = "while") ~> (trav # None /\ trav.stack = <<>>)

\* C30 witness: a call returned on a graph in which a requires itself and b,
\* and b requires a, with both kept.
C30_Witness ==
    /\ TravDone
    /\ IsGraph(cur)
    /\ HasEdge(KA, KA) /\ HasEdge(KA, KB) /\ HasEdge(KB, KA)
    /\ {KA, KB} \subseteq NodeKeys(cur)

\* what the call followed step by step returns is what filter_nodes computes
TravAgrees ==
    (TravDone /\ IsGraph(cur) /\ cur.id # src.id) =>
        cur = filter_nodes(src, last.include, last.exclude, cur.id)

\* an operation has been applied to a graph in memory
MemOperated == mem # None /\ mem.src # None

\* the graph the operation was applied to is in memory what it was before the
\* call: same keys, same child lists in the same order, same key index
SourceUnchanged == Deref(mem.heap, mem.src) = src

\* the graph the operation returned is a mapping of its own whose child lists
\* are lists of their own, none of them in memory before the call
NewlyAllocated ==
    /\ mem.cur.id # mem.src.id
    /\ \A i \in DOMAIN mem.cur.obj : mem.cur.obj[i].v > mem.base
    /\ \A i, j \in DOMAIN mem.cur.obj : i # j => mem.cur.obj[i].v # mem.cur.obj[j].v

\* the last operation returned a graph
DerivedGraph ==
    /\ MemOperated
    /\ last.op \in {"filter_nodes", "reverse", "sort"}
    /\ IsGraph(mem.cur)

\* C29 as stated: filter_nodes, reverse (of both classes), sort,
\* conflicting_deps and cyclic_deps leave the graph they are applied to
\* unchanged, and every graph they return is a newly allocated mapping with
\* newly allocated child lists.
C29_AlwaysNewGraph ==
    /\ MemOperated => SourceUnchanged
    /\ DerivedGraph => NewlyAllocated

\* the call was filter_nodes(None, None)
NoFilterGiven ==
    last.op = "filter_nodes" /\ last.include = None /\ last.exclude = None

\* C29 amended: filter_nodes, reverse (of both classes), sort,
\* conflicting_deps and cyclic_deps leave the graph they are applied to
\* unchanged; every graph they return is a newly allocated mapping with newly
\* allocated child lists, except that filter_nodes(None, None) returns the
\* graph it was called on.
C29_SourceKeptResultNew ==
    /\ MemOperated => SourceUnchanged
    /\ (DerivedGraph /\ ~NoFilterGiven) => NewlyAllocated
    /\ (DerivedGraph /\ NoFilterGiven) => mem.cur = mem.src

\* C29 witness: a reversed graph in memory was filtered, with the list of a
\* kept key shorter than in the source, which still holds its list.
C29_Witness ==
    /\ DerivedGraph
    /\ last.op = "filter_nodes"
    /\ mem.src.cls = "ReversedPackageDAG"
    /\ \E i \in DOMAIN mem.cur.obj :
          Len(mem.heap[mem.cur.obj[i].v]) < Len(DictGet(src.obj, mem.cur.obj[i].k))

\* the graph in memory is the graph the operations compute
MemAgrees ==
    (mem # None /\ IsGraph(mem.cur)) => Deref(mem.heap, mem.cur) = cur

====
